---- MODULE Spec2Model ----
(***************************************************************************)
(* Model of the validation/annotation driver and of the resource catalog   *)
(* of oascomply.                                                           *)
(*                                                                         *)
(*  - ApiDescription.validate (src/oascomply/apidescription.py) is a       *)
(*    recursive, single-threaded procedure.  Its activations are the       *)
(*    frames of `stack`; every action below is one step of the activation  *)
(*    on top of the stack.                                                 *)
(*  - OasCatalog.get_resource (src/oascomply/oasjson.py) is modelled in    *)
(*    the second part of the module, with its own specification.           *)
(***************************************************************************)
EXTENDS Integers, Sequences, FiniteSets, TLC

(***************************************************************************)
(* Bounds of the model.                                                    *)
(***************************************************************************)
\* Number of annotations the validator returns in all, over the resources
\* of one API description.
MaxAnnots == 3
\* Number of validate calls a caller makes on one ApiDescription, and number
\* of annotations in all, in the specification with repeated calls.
MaxCalls == 2
MaxAnnotsAgain == 2

(***************************************************************************)
(* Identifiers.  An identifier is a document URI with an optional JSON     *)
(* Pointer fragment ("" stands for no fragment).                           *)
(***************************************************************************)
Uri(d, f) == [doc |-> d, frag |-> f]

Uris == {Uri("A", ""), Uri("B", ""), Uri("B", "/x"), Uri("C", "")}

\* rdflib.URIRef.defrag(): the identifier without its fragment.
Defrag(u) == Uri(u.doc, "")

(***************************************************************************)
(* The fixed annotation order.                                             *)
(***************************************************************************)
\* Variant: oasExamples moved in front of oasChildren.
ANNOT_ORDER_ExamplesEarly ==
    << "oasType", "oasReferences", "oasExamples", "oasChildren",
       "oasLiterals", "oasExtensible", "oasApiLinks", "oasDescriptionLinks" >>

ANNOT_ORDER ==
    << "oasType", "oasReferences", "oasChildren", "oasLiterals",
       "oasExtensible", "oasApiLinks", "oasDescriptionLinks", "oasExamples" >>

NAnnot == Len(ANNOT_ORDER)

Kinds == { ANNOT_ORDER[n] : n \in 1..NAnnot }

\* Keywords the validator may put on an annotation: the eight kinds the
\* graph builder handles and one it has no add_<keyword> method for.
Keywords == Kinds \cup {"oasBogus"}

\* hasattr(self._g, 'add_' + keyword.lower())
HasHandler(kw) == kw \in Kinds


(***************************************************************************)
(* State of one ApiDescription and of the validate calls in progress.      *)
(***************************************************************************)
VARIABLES
    validated,   \* self._validated: list of identifiers, in validation order
    stack,       \* activations of validate, outermost first
    graph,       \* self._g: the resources the handlers have added facts for
    status,      \* "idle", "running", "returned", "raised" or "exited"
    result,      \* error list returned by the last top-level validate call
    ncalls,      \* number of top-level validate calls made so far
    nparse,      \* number of times the validator ran, per identifier
    nannots,     \* number of annotations the validator has returned so far
    discovered,  \* per pass identifier, the targets returned by its handlers
                 \* of the kinds before oasExamples
    late,        \* the targets returned by add_oasexamples handlers
    completed,   \* identifiers whose validate call has returned
    failed,      \* identifier whose load or validation ended the run
    failure      \* "none", or what ended the run: "load", "instance", "keyword"

driverVars == << validated, stack, graph, status, result, ncalls, nparse,
                 nannots, discovered, late, completed, failed, failure >>

(***************************************************************************)
(* State of the resource catalog (OasCatalog).                             *)
(***************************************************************************)
VARIABLES
    schema_cache,  \* self._schema_cache: per cacheid and base identifier, the
                   \* cached root node (0: no entry)
    loads,         \* the load_json calls made so far, each with the cacheid
                   \* its document was cached under ("none": not cached)
    call,          \* the last get_resource call and how it ended
    returned       \* per identifier and requested cacheid, the root nodes of
                   \* the nodes that get_resource calls have returned

catVars == << schema_cache, loads, call, returned >>

(***************************************************************************)
(* State of one parent node of a typed document tree (OasJson).            *)
(***************************************************************************)
VARIABLES
    data,       \* self.data: per key, the child node in that slot
    nnodes,     \* number of nodes constructed so far
    nresolved,  \* per key, the number of _resolve_references calls made on
                \* the nodes of that slot
    nconv,      \* per key, the number of convert_to_schema calls
    converted,  \* per key, the node the first convert_to_schema call returned
    conv        \* the last convert_to_schema call and the node it returned

treeVars == << data, nnodes, nresolved, nconv, converted, conv >>

(***************************************************************************)
(* State of one multi-suffix source (MultiSuffixSource) and of the map it  *)
(* records locators in.                                                    *)
(***************************************************************************)
VARIABLES
    uri_url_map,  \* self._uri_url_map: per requested path, the recorded URL
    res           \* the last call of the source and how it ended

srcVars == << uri_url_map, res >>

(***************************************************************************)
(* State of the class OASResourceManager: the direct-map sources.          *)
(***************************************************************************)
VARIABLES
    direct_sources,  \* cls._direct_sources: per catalog, its DirectMapSource
                     \* (0: none)
    uri_sources,     \* per catalog, the sources registered without prefix by
                     \* add_uri_source calls, in call order
    source_map,      \* per DirectMapSource, its table self._map
    updates          \* per catalog, the mappings of the
                     \* update_direct_mapping calls, in call order

mgrVars == << direct_sources, uri_sources, source_map, updates >>

(***************************************************************************)
(* The assignment of a URI to a file named on the command line.            *)
(***************************************************************************)
VARIABLES
    farg  \* the last _process_file_arg call and the URI it assigned

argVars == << farg >>

(***************************************************************************)
(* A LocationToURI object.                                                 *)
(***************************************************************************)
VARIABLES
    ltu  \* the arguments of the constructor call and the object constructed

ltuVars == << ltu >>

(***************************************************************************)
(* The calls of ContentParser.parse.                                       *)
(***************************************************************************)
VARIABLES
    parses  \* one record for each call of parse, in the order of the calls

parseVars == << parses >>

(***************************************************************************)
(* A run of the command line: load and run.                                *)
(***************************************************************************)
VARIABLES
    run  \* the position in load, its local variables and the calls it made

runVars == << run >>

(***************************************************************************)
(* The sources registered with a catalog and the tables they share.        *)
(***************************************************************************)
VARIABLES
    registered,      \* the sources registered so far, in registration order:
                     \* the catalog and the URI prefix of each
    url_maps,        \* per catalog, the table of locators its sources share
    sourcemap_maps,  \* per catalog, the table of sourcemaps they share
    resolution       \* the last load through a catalog and what was read
                     \* back from the tables after it

regVars == << registered, url_maps, sourcemap_maps, resolution >>

(***************************************************************************)
(* The calls of HttpLoader.load.                                           *)
(***************************************************************************)
VARIABLES
    http  \* one record for each call of load, in the order of the calls

httpVars == << http >>

(***************************************************************************)
(* The OasJson nodes constructed.                                          *)
(***************************************************************************)
VARIABLES
    nodes,  \* the nodes constructed, in the order of their construction
    built   \* the last call of OasJson.__init__ and how it ended

nodeVars == << nodes, built >>

vars == << driverVars, catVars, treeVars, srcVars, mgrVars, argVars, ltuVars,
           parseVars, runVars, regVars, httpVars, nodeVars >>

\* The variables of the other components, which the steps of one component
\* leave alone.
exceptDriver == << catVars, treeVars, srcVars, mgrVars, argVars, ltuVars,
                   parseVars, runVars, regVars, httpVars, nodeVars >>
exceptCat == << driverVars, treeVars, srcVars, mgrVars, argVars, ltuVars,
                parseVars, runVars, regVars, httpVars, nodeVars >>
exceptTree == << driverVars, catVars, srcVars, mgrVars, argVars, ltuVars,
                 parseVars, runVars, regVars, httpVars, nodeVars >>
exceptSrc == << driverVars, catVars, treeVars, mgrVars, argVars, ltuVars,
                parseVars, runVars, regVars, httpVars, nodeVars >>
exceptMgr == << driverVars, catVars, treeVars, srcVars, argVars, ltuVars,
                parseVars, runVars, regVars, httpVars, nodeVars >>
exceptArg == << driverVars, catVars, treeVars, srcVars, mgrVars, ltuVars,
                parseVars, runVars, regVars, httpVars, nodeVars >>
exceptLtu == << driverVars, catVars, treeVars, srcVars, mgrVars, argVars,
                parseVars, runVars, regVars, httpVars, nodeVars >>
exceptParse == << driverVars, catVars, treeVars, srcVars, mgrVars, argVars,
                  ltuVars, runVars, regVars, httpVars, nodeVars >>
exceptRun == << driverVars, catVars, treeVars, srcVars, mgrVars, argVars,
                ltuVars, parseVars, regVars, httpVars, nodeVars >>
exceptReg == << driverVars, catVars, treeVars, srcVars, mgrVars, argVars,
                ltuVars, parseVars, runVars, httpVars, nodeVars >>
exceptHttp == << driverVars, catVars, treeVars, srcVars, mgrVars, argVars,
                 ltuVars, parseVars, runVars, regVars, nodeVars >>
exceptNode == << driverVars, catVars, treeVars, srcVars, mgrVars, argVars,
                 ltuVars, parseVars, runVars, regVars, httpVars >>

NoUri == [doc |-> "none", frag |-> ""]

\* self._primary_uri
PrimaryUri == Uri("A", "")

\* Elements of a sequence.
Range(s) == { s[n] : n \in 1..Len(s) }

\* Number of occurrences of x in the sequence s.
Count(s, x) == Cardinality({ n \in 1..Len(s) : s[n] = x })

\* Values of an annotation, as far as the handlers use them: the list of
\* identifiers the annotation refers to.
RefLists == { <<>> } \cup { <<t>> : t \in Uris }

\* Lists of at most n annotation keywords (output['annotations']).
Outputs(n) == UNION { [1..m -> Keywords] : m \in 0..n }

\* by_method: the annotations of the validator's output, grouped by handler
\* (lines 278-286).  A group is represented by the number of its annotations
\* that the loop of line 307 has not yet passed.
ByMethod(output) ==
    [ kw \in Kinds |-> Count(output, kw) ]

\* to_validate[uri] = oastype for every returned target: a new key goes to
\* the end of the dict, an existing key keeps its place (lines 311-312).
\* Variant: the returned targets replace the dict instead of updating it.
AddTargetsReplace(tv, targets) ==
    IF targets = <<>> THEN tv ELSE targets

RECURSIVE AddTargets(_, _)
AddTargets(tv, targets) ==
    IF targets = <<>> THEN tv
    ELSE AddTargets(IF Head(targets) \in Range(tv) THEN tv
                    ELSE Append(tv, Head(targets)),
                    Tail(targets))

\* OasGraph.add_oasreferences: of the targets named by the annotation value,
\* the ones in another document than the referring one are returned.
add_oasreferences(src, value) ==
    SelectSeq(value, LAMBDA t : Defrag(t) # Defrag(src))

\* graph_result.refTargets of a handler call: every handler returns the
\* reference targets it has discovered; add_oasreferences returns the ones
\* in another document, the other handlers any of the identifiers their
\* annotation names.
RefTargets(kind, src, value) ==
    IF kind = "oasReferences" THEN add_oasreferences(src, value) ELSE value

\* An activation of validate that has just been called.
\*   i: position of the loop over ANNOT_ORDER,
\*   j: position of the loop over to_validate,
\*   k: number of handler calls made by the loop over by_method[method_name].
NewFrame(u, ve) ==
    [ uri |-> u, validate_examples |-> ve, phase |-> "enter",
      i |-> 1, j |-> 1, k |-> 0,
      by_method |-> [kw \in Kinds |-> 0],
      to_validate |-> <<>>, errors |-> <<>> ]

Top == stack[Len(stack)]

SetTop(f) == [stack EXCEPT ![Len(stack)] = f]

Running == status = "running" /\ stack # <<>>

\* The identifiers of the validate calls in progress.
OnStack == { stack[n].uri : n \in 1..Len(stack) }

\* Variant: the oasExamples iteration does not start with the loop over
\* to_validate.
AtIterationNoDrain(f, n) ==
    IF n > NAnnot
    THEN [f EXCEPT !.i = n, !.phase = "return"]
    ELSE [f EXCEPT !.i = n, !.j = 1, !.k = 0, !.phase = "call"]

\* The loop `for annot in ANNOT_ORDER` reaches iteration n: the oasExamples
\* iteration starts with the loop over to_validate (lines 292-294), the
\* others with the handler calls (line 305); after the last iteration
\* validate returns (line 314).
AtIteration(f, n) ==
    IF n > NAnnot
    THEN [f EXCEPT !.i = n, !.phase = "return"]
    ELSE [f EXCEPT !.i = n, !.j = 1, !.k = 0,
                   !.phase = IF ANNOT_ORDER[n] = "oasExamples"
                             THEN "drain" ELSE "call"]

(***************************************************************************)
(* The resource catalog: documents, cache partitions, get_resource.        *)
(***************************************************************************)
\* Number of load_json calls (loads through the source chain).
MaxLoads == 2

\* The documents identifiers can name.  The sources find all of them but E.
Docs == {"A", "B", "C", "D", "E"}

Loadable == Docs \ {"E"}

\* doc.get('openapi') of each document, as a sequence of characters
\* (<<>>: the document has no such field).
openapi(d) ==
    CASE d = "A" -> << "3", ".", "0", ".", "3" >>
      [] d = "B" -> << "3", ".", "1", ".", "0" >>
      [] d = "D" -> << "2", ".", "0" >>
      [] OTHER   -> << >>

\* The JSON Pointers that evaluate to a node of each document.
Pointers(d) == IF d \in {"A", "B"} THEN {"/x"} ELSE {}

\* The identifiers get_resource is called with.
CatUris == { Uri(d, "") : d \in Docs } \cup { Uri(d, "/x") : d \in {"A", "C"} }

\* The cacheid arguments: the default of the parameter and the two
\* partitions callers name.
CacheIds == {"default", "3.0", "3.1"}

Requests == [uri : CatUris, cacheid : CacheIds]

\* str.startswith
StartsWith(s, prefix) ==
    /\ Len(s) >= Len(prefix)
    /\ SubSeq(s, 1, Len(prefix)) = prefix

\* Lines 508-519: the cacheid after the look at the document's openapi
\* field; "ValueError" when the version is neither 3.0.x nor 3.1.x.
DetectedCacheid(d, cacheid) ==
    IF openapi(d) # << >>
    THEN IF StartsWith(openapi(d), << "3", ".", "0" >>) THEN "3.0"
         ELSE IF StartsWith(openapi(d), << "3", ".", "1" >>) THEN "3.1"
         ELSE "ValueError"
    ELSE cacheid

\* OasJson._determine_metaschema: a root node can be constructed for the
\* versions 3.0 and 3.1 only.
HasMetaschema(oasversion) == oasversion \in {"3.0", "3.1"}

\* The node at pointer frag of the tree whose root is the node that the
\* inst-th load constructed.
Node(inst, frag) == [inst |-> inst, frag |-> frag]

NoNode == Node(0, "")

NoCall ==
    [ uri |-> NoUri, cacheid |-> "default", outcome |-> "none",
      node |-> NoNode, loaded |-> FALSE, detected |-> "none",
      cached |-> {} ]

\* The call has ended with `outcome`; node is what it returned, loaded
\* whether it called load_json, detected the partition the openapi field of
\* the loaded document names ("none": no field, "unsupported": another
\* version).
Outcome(uri, cacheid, outcome, node, loaded, detected) ==
    /\ call' = [ uri |-> uri, cacheid |-> cacheid, outcome |-> outcome,
                 node |-> node, loaded |-> loaded, detected |-> detected,
                 cached |-> { c \in CacheIds : schema_cache[c][uri.doc] # 0 } ]
    /\ returned' = IF outcome = "returned"
                   THEN [returned EXCEPT
                           ![[uri |-> uri, cacheid |-> cacheid]] =
                               @ \cup {node.inst}]
                   ELSE returned

\* Lines 554-562: the node the call returns, given the root node `inst` of
\* the document; CatalogError when the pointer does not evaluate.
Resolve(uri, cacheid, inst, loaded, detected) ==
    IF uri.frag # "" /\ uri.frag \notin Pointers(uri.doc)
    THEN Outcome(uri, cacheid, "CatalogError", NoNode, loaded, detected)
    ELSE Outcome(uri, cacheid, "returned", Node(inst, uri.frag),
                 loaded, detected)

\* OasJson.__init__, lines 745-765: the root node is cached under its
\* oasversion, which get_resource sets to the detected cacheid.
CachedUnder(requested, detected) == detected

\* OasCatalog.get_resource(uri, cacheid=cacheid).
GetResource(uri, cacheid) ==
    LET d == uri.doc
        \* lines 477-486: only root nodes are cache entries
        exact == IF uri.frag = "" THEN schema_cache[cacheid][d] ELSE 0
        \* lines 492-499
        base == IF uri.frag # "" THEN schema_cache[cacheid][d] ELSE 0
        detected == DetectedCacheid(d, cacheid)
        field == IF openapi(d) = << >> THEN "none"
                 ELSE IF detected = "ValueError" THEN "unsupported"
                 ELSE detected
        inst == Len(loads) + 1
    IN  /\ UNCHANGED exceptCat
        /\ IF exact # 0
           THEN /\ Outcome(uri, cacheid, "returned", Node(exact, ""),
                           FALSE, "none")
                /\ UNCHANGED << schema_cache, loads >>
           ELSE IF base # 0
           THEN /\ Resolve(uri, cacheid, base, FALSE, "none")
                /\ UNCHANGED << schema_cache, loads >>
           ELSE /\ Len(loads) < MaxLoads
                /\ IF d \notin Loadable
                   THEN \* load_json raises CatalogError (line 506)
                        /\ loads' = Append(loads,
                                       [doc |-> d, cacheid |-> "none"])
                        /\ Outcome(uri, cacheid, "CatalogError", NoNode,
                                   TRUE, "none")
                        /\ UNCHANGED schema_cache
                   ELSE IF detected = "ValueError"
                           \/ ~HasMetaschema(detected)
                   THEN \* line 514, or the constructor called on line 536
                        /\ loads' = Append(loads,
                                       [doc |-> d, cacheid |-> "none"])
                        /\ Outcome(uri, cacheid, "ValueError", NoNode,
                                   TRUE, field)
                        /\ UNCHANGED schema_cache
                   ELSE \* lines 536-545: the constructor caches the root
                        /\ loads' = Append(loads,
                                       [doc |-> d,
                                        cacheid |-> CachedUnder(cacheid,
                                                                detected)])
                        /\ schema_cache' =
                             [schema_cache EXCEPT
                                ![CachedUnder(cacheid, detected)][d] = inst]
                        /\ Resolve(uri, cacheid, inst, TRUE, field)

\* Any sequence of get_resource calls on one catalog.
NextCatalog ==
    \E uri \in CatUris, cacheid \in CacheIds : GetResource(uri, cacheid)

(***************************************************************************)
(* The typed document tree: convert_to_schema.                             *)
(***************************************************************************)
\* Number of convert_to_schema calls on one parent node.
MaxConverts == 5

\* The keys of the parent node.  The child at "schema" is in a position that
\* is recognised as a schema when the tree is built; the others are plain
\* nodes.
Keys == {"a", "b", "schema"}

\* The identifier of the parent node: a document and a JSON Pointer, the
\* sequence of the keys from the root of the document.
ParentUri == [doc |-> "doc", ptr |-> << "components" >>]

\* uri.copy_with(fragment=uri.fragment / key)
PointerAppend(uri, key) == [uri EXCEPT !.ptr = Append(@, key)]

\* A child node: the inst-th node constructed, an OasJsonSchema or not, the
\* value it wraps and its identifier.
Child(inst, isschema, value, uri) ==
    [inst |-> inst, isschema |-> isschema, value |-> value, uri |-> uri]

NoChild == Child(0, FALSE, "none", [doc |-> "none", ptr |-> << >>])

\* The children of the parent node after the construction of the tree: the
\* child at key k wraps the value "value of k".
InitialData ==
    [ k \in Keys |->
        CASE k = "a" -> Child(1, FALSE, "value of a",
                              PointerAppend(ParentUri, k))
          [] k = "b" -> Child(2, FALSE, "value of b",
                              PointerAppend(ParentUri, k))
          [] OTHER   -> Child(3, TRUE, "value of schema",
                              PointerAppend(ParentUri, k)) ]

\* OasJsonSchema.__init__, after the constructor of JSONSchema: the two
\* tests on root and parent (lines 653-662).  root is None unless the
\* caller passes it; root_is_parents tells whether a root that is passed
\* is the document root of the parent.
OasJsonSchemaInit(has_parent, has_root, root_is_parents) ==
    IF ~has_parent THEN "AttributeError"
    ELSE IF ~has_root \/ ~root_is_parents THEN "ValueError"
    ELSE "ok"

\* The bookkeeping of a convert_to_schema(key) call that ends with `outcome`
\* and, when it returns, returns `node`.
Converted(key, node, outcome) ==
    /\ conv' = [key |-> key, node |-> node, outcome |-> outcome]
    /\ nconv' = [nconv EXCEPT ![key] = @ + 1]
    /\ converted' = IF nconv[key] = 0
                    THEN [converted EXCEPT ![key] = node]
                    ELSE converted

\* OasJson.convert_to_schema(key): for a child that is no OasJsonSchema a
\* new OasJsonSchema is constructed with parent=self and the keyword
\* arguments of self._schemakwargs (catalog and cacheid, no root), so its
\* constructor raises ValueError before the slot is assigned; a child that
\* is an OasJsonSchema is returned as it is.
ConvertToSchema(key) ==
    /\ nconv["a"] + nconv["b"] + nconv["schema"] < MaxConverts
    /\ IF ~data[key].isschema
       THEN /\ nnodes' = nnodes + 1
            /\ IF OasJsonSchemaInit(TRUE, FALSE, FALSE) = "ok"
               THEN /\ data' = [data EXCEPT ![key] =
                                  Child(nnodes + 1, TRUE, data[key].value,
                                        PointerAppend(ParentUri, key))]
                    /\ nresolved' = [nresolved EXCEPT ![key] = @ + 1]
                    /\ Converted(key, data'[key], "returned")
               ELSE /\ UNCHANGED << data, nresolved >>
                    /\ Converted(key, NoChild,
                                 OasJsonSchemaInit(TRUE, FALSE, FALSE))
       ELSE /\ UNCHANGED << data, nnodes, nresolved >>
            /\ Converted(key, data[key], "returned")
    /\ UNCHANGED exceptTree

\* Any sequence of convert_to_schema calls on one parent node.
NextTree == \E key \in Keys : ConvertToSchema(key)

(***************************************************************************)
(* The multi-suffix source: resolve_resource and __call__.                 *)
(***************************************************************************)
\* Length of the suffix list of a source.
MaxSuffixes == 3

\* The suffixes a source may be configured with; ".txt" is one the content
\* parser has no parser for.
Suffixes == {"", ".json", ".yaml", ".txt"}

\* ContentParser.get_parser: the keys of its dict (None is never passed).
ParserSuffixes == {"", ".json", ".yaml", ".yml"}

\* The suffix lists: lists without repetition of at most MaxSuffixes suffixes.
SuffixLists ==
    { l \in UNION { [1..m -> Suffixes] : m \in 0..MaxSuffixes } :
        \A a, b \in DOMAIN l : a # b => l[a] # l[b] }

\* The paths requested from the source, relative to its prefix.
RelativePaths == {"foo"}

\* What is at a location: nothing, a JSON document (which is a YAML document
\* too), or text that is neither JSON nor YAML.
Contents == {"absent", "json", "garbage"}

\* The files under the prefix of the source, for one requested path: the
\* content at no_suffix_path + suffix, for the suffixes that have a parser
\* (no other location is read).
FileSystems == [Suffixes \cap ParserSuffixes -> Contents]

\* full_path = no_suffix_path + suffix
FullPath(relative_path, suffix) == [path |-> relative_path, suffix |-> suffix]

NoPath == FullPath("none", "")

\* ContentParser._json_parse: the loader raises CatalogError when it cannot
\* read the location, a JSONDecodeError is turned into a CatalogError.
JsonParse(content) ==
    CASE content = "absent" -> "CatalogError"
      [] content = "json"   -> "ok"
      [] OTHER              -> "CatalogError"

\* ContentParser._yaml_parse: the loader raises CatalogError when it cannot
\* read the location; the error of yaml.safe_load is not the
\* InvalidYamlError of the except clause, and leaves the method as it is.
YamlParse(content) ==
    CASE content = "absent"  -> "CatalogError"
      [] content = "garbage" -> "YAMLError"
      [] OTHER               -> "ok"

\* ContentParser._unknown_parse: JSON first, then YAML.
UnknownParse(content) ==
    IF JsonParse(content) = "CatalogError"
    THEN YamlParse(content)
    ELSE JsonParse(content)

\* ContentParser.parse(full_path, suffix): "ok", or the exception raised.
Parse(suffix, files) ==
    IF suffix \notin ParserSuffixes THEN "KeyError"
    ELSE IF suffix = "" THEN UnknownParse(files[suffix])
    ELSE IF suffix = ".json" THEN JsonParse(files[suffix])
    ELSE YamlParse(files[suffix])

\* An entry of the list `errors`: the suffix and the exception caught.
ErrorEntry(relative_path, suffix, exc) ==
    [ suffix |-> suffix, error |-> exc,
      about |-> FullPath(relative_path, suffix) ]

\* The result of resolve_resource: how it ended, the suffixes tried, the URL
\* of the content returned, and the entries of the error message.
Resolved(outcome, tried, url, message) ==
    [ outcome |-> outcome, tried |-> tried, url |-> url,
      message |-> message ]

\* Variant: the loop keeps no entry for a suffix without parser.
RECURSIVE ResolveResourceForgetful(_, _, _, _, _)
ResolveResourceForgetful(relative_path, suffixes, files, n, errors) ==
    IF n > Len(suffixes)
    THEN Resolved("CatalogError", suffixes, NoPath, errors)
    ELSE LET suffix == suffixes[n]
             r == Parse(suffix, files)
         IN  IF r = "ok"
             THEN Resolved("returned", SubSeq(suffixes, 1, n),
                           FullPath(relative_path, suffix), <<>>)
             ELSE IF r = "CatalogError"
             THEN ResolveResourceForgetful(relative_path, suffixes, files,
                     n + 1,
                     Append(errors, ErrorEntry(relative_path, suffix, r)))
             ELSE IF r = "KeyError"
             THEN ResolveResourceForgetful(relative_path, suffixes, files,
                     n + 1, errors)
             ELSE Resolved(r, SubSeq(suffixes, 1, n), NoPath, <<>>)

\* MultiSuffixSource.resolve_resource, from iteration n of its loop on, with
\* the list `errors` of the iterations before.
RECURSIVE ResolveResource(_, _, _, _, _)
ResolveResource(relative_path, suffixes, files, n, errors) ==
    IF n > Len(suffixes)
    THEN Resolved("CatalogError", suffixes, NoPath, errors)
    ELSE LET suffix == suffixes[n]
             r == Parse(suffix, files)
         IN  IF r = "ok"
             THEN Resolved("returned", SubSeq(suffixes, 1, n),
                           FullPath(relative_path, suffix), <<>>)
             ELSE IF r \in {"CatalogError", "KeyError"}
             THEN ResolveResource(relative_path, suffixes, files, n + 1,
                     Append(errors, ErrorEntry(relative_path, suffix, r)))
             ELSE Resolved(r, SubSeq(suffixes, 1, n), NoPath, <<>>)

NoRes ==
    [ relative_path |-> "none", suffixes |-> <<>>,
      files |-> [x \in Suffixes \cap ParserSuffixes |-> "absent"],
      result |-> Resolved("none", <<>>, NoPath, <<>>) ]

\* OASSource.__call__(relative_path) on a source with the suffix list
\* `suffixes`, the files under its prefix being `files`: the URL of the
\* content is recorded when resolve_resource returns.
SourceCall(relative_path, suffixes, files) ==
    LET r == ResolveResource(relative_path, suffixes, files, 1, <<>>)
    IN  /\ res' = [ relative_path |-> relative_path, suffixes |-> suffixes,
                    files |-> files, result |-> r ]
        /\ uri_url_map' = IF r.outcome = "returned"
                          THEN [uri_url_map EXCEPT ![relative_path] = r.url]
                          ELSE uri_url_map
        /\ UNCHANGED exceptSrc

\* Any sequence of calls of multi-suffix sources that share one map.  The
\* locations that a call does not read, those of the suffixes that are not
\* in its list, are taken as absent.
NextSource ==
    \E relative_path \in RelativePaths, suffixes \in SuffixLists,
       files \in FileSystems :
         /\ \A x \in DOMAIN files :
               (\A n \in DOMAIN suffixes : suffixes[n] # x)
               => files[x] = "absent"
         /\ SourceCall(relative_path, suffixes, files)

(***************************************************************************)
(* The resource manager: update_direct_mapping.                            *)
(***************************************************************************)
\* Number of update_direct_mapping calls.
MaxUpdates == 3

\* The catalogs of the process.
Catalogs == {"oascomply", "other"}

\* The identifiers and the locations of the mappings.
MapUris == {"u1", "u2"}

Locations == {"l1", "l2"}

\* dict.get of an identifier the mapping has no entry for.
NoLocation == "none"

\* The mappings: dicts from identifiers to locations.
Mappings == [MapUris -> Locations \cup {NoLocation}]

EmptyMapping == [u \in MapUris |-> NoLocation]

\* The DirectMapSource objects, in the order of their construction.
SourceIds == 1..MaxUpdates

\* Variant: the table is replaced by the new mapping.
UpdateMapReplace(table, mapping) == mapping

\* DirectMapSource.update_map: self._map.update(mapping).
UpdateMap(table, mapping) ==
    [ u \in MapUris |-> IF mapping[u] # NoLocation THEN mapping[u]
                        ELSE table[u] ]

\* The number of DirectMapSource objects constructed so far.
NSources == Cardinality({ c \in Catalogs : direct_sources[c] # 0 })

\* OASResourceManager.update_direct_mapping(catalog, mapping).
UpdateDirectMapping(catalog, mapping) ==
    /\ Len(updates["oascomply"]) + Len(updates["other"]) < MaxUpdates
    /\ updates' = [updates EXCEPT ![catalog] = Append(@, mapping)]
    /\ IF direct_sources[catalog] = 0
       THEN LET dm == NSources + 1
            IN  /\ source_map' = [source_map EXCEPT ![dm] = mapping]
                /\ uri_sources' = [uri_sources EXCEPT
                                     ![catalog] = Append(@, dm)]
                /\ direct_sources' = [direct_sources EXCEPT ![catalog] = dm]
       ELSE /\ source_map' = [source_map EXCEPT
                                ![direct_sources[catalog]] =
                                    UpdateMap(@, mapping)]
            /\ UNCHANGED << uri_sources, direct_sources >>
    /\ UNCHANGED exceptMgr

\* Any sequence of update_direct_mapping calls.
NextManager ==
    \E catalog \in Catalogs, mapping \in Mappings :
       UpdateDirectMapping(catalog, mapping)

(***************************************************************************)
(* ApiDescription.load and _process_file_arg: the URI of a declared file.  *)
(***************************************************************************)
\* Number of directory prefixes declared on the command line.
MaxPrefixes == 3

\* The declared directories, as sequences of path segments (a segment is a
\* number, so that paths can be compared as pathlib compares them).
Directories == { <<1>>, <<1, 1>>, <<1, 1, 1>>, <<1, 2>>, <<2>> }

\* The declared files: the directory they lie in and their name.
Files ==
    { [dir |-> <<1, 1, 1>>, name |-> "f"], [dir |-> <<1, 2>>, name |-> "f"],
      [dir |-> <<3>>, name |-> "f"] }

\* The lists of UriPrefix tuples: at most MaxPrefixes directories, each
\* declared once and with a URI prefix of its own, in any order.
PrefixLists ==
    { l \in UNION { [1..m -> Directories] : m \in 0..MaxPrefixes } :
        \A a, b \in DOMAIN l : a # b => l[a] # l[b] }

\* Comparison of two paths: that of the lists of their segments.
RECURSIVE PathLess(_, _)
PathLess(a, b) ==
    IF b = <<>> THEN FALSE
    ELSE IF a = <<>> THEN TRUE
    ELSE IF Head(a) # Head(b) THEN Head(a) < Head(b)
    ELSE PathLess(Tail(a), Tail(b))

\* The list `sorted` (in descending order) with p put in its place.
RECURSIVE InsertDescending(_, _)
InsertDescending(p, sorted) ==
    IF sorted = <<>> THEN << p >>
    ELSE IF PathLess(Head(sorted), p) THEN << p >> \o sorted
    ELSE << Head(sorted) >> \o InsertDescending(p, Tail(sorted))

\* prefixes.sort(reverse=True): the tuples compare by their first field, the
\* directory.
RECURSIVE SortReverse(_)
SortReverse(prefixes) ==
    IF prefixes = <<>> THEN <<>>
    ELSE InsertDescending(Head(prefixes), SortReverse(Tail(prefixes)))

\* full_path.relative_to(directory) succeeds: the directory is the one of
\* the file or one above it.
IsRelativeTo(file, directory) ==
    /\ Len(directory) <= Len(file.dir)
    /\ SubSeq(file.dir, 1, Len(directory)) = directory

\* A URI: the kind of its origin ("explicit": second -f argument; "prefix":
\* URI prefix of a directory plus relative path; "file": file: URL of the
\* path) and, for "prefix", the directory whose prefix it starts with.
AssignedUri(kind, directory) == [kind |-> kind, directory |-> directory]

NoAssignedUri == AssignedUri("none", <<>>)

\* The loop `for p in prefixes` of _process_file_arg from position n on,
\* the variable uri having the value `uri`.
RECURSIVE PrefixLoop(_, _, _, _)
PrefixLoop(file, prefixes, n, uri) ==
    IF n > Len(prefixes) THEN uri
    ELSE PrefixLoop(file, prefixes, n + 1,
                    IF IsRelativeTo(file, prefixes[n])
                    THEN AssignedUri("prefix", prefixes[n])
                    ELSE uri)

\* The URI that _process_file_arg assigns to the file.
FileUri(file, explicit, prefixes) ==
    LET uri == PrefixLoop(file, prefixes, 1,
                          IF explicit THEN AssignedUri("explicit", <<>>)
                          ELSE NoAssignedUri)
    IN  IF uri = NoAssignedUri THEN AssignedUri("file", <<>>) ELSE uri

\* ApiDescription.load for one -f argument (with or without a URI) and the
\* -d arguments `declared`: the prefixes are sorted, then the file argument
\* is processed.
ProcessFileArg(file, explicit, declared) ==
    /\ farg' = [ file |-> file, explicit |-> explicit,
                 declared |-> declared,
                 uri |-> FileUri(file, explicit, SortReverse(declared)) ]
    /\ UNCHANGED exceptArg

NextFileArg ==
    \E file \in Files, explicit \in BOOLEAN, declared \in PrefixLists :
       ProcessFileArg(file, explicit, declared)

(***************************************************************************)
(* LocationToURI and URLToURI: the constructor.                            *)
(*                                                                         *)
(* A string is a sequence of pieces: "https://ex.org" (scheme and          *)
(* authority), the path pieces "/", "a", ".yaml", ".json", the queries "?" *)
(* (empty) and "?q", the fragments "#" (empty) and "#f".                   *)
(***************************************************************************)
\* Number of suffix pieces at the end of the path of a location.
MaxTrailing == 2

\* Length of the list strip_suffixes.
MaxStrip == 2

SuffixPieces == {".yaml", ".json"}

PathPieces == {"/", "a"} \cup SuffixPieces

\* The sequences of at most n elements of S.
SeqsUpTo(S, n) == UNION { [1..m -> S] : m \in 0..n }

\* The strings a location is given as: relative or absolute, with up to
\* MaxTrailing suffixes, with or without a trailing "/", a query or a
\* fragment.
LocationStrings ==
    { start \o trailing \o slash \o tail :
        start \in { << "a" >>, << "https://ex.org", "/" >>,
                    << "https://ex.org", "/", "a" >> },
        trailing \in SeqsUpTo(SuffixPieces, MaxTrailing),
        slash \in { << >>, << "/" >> },
        tail \in { << >>, << "?" >>, << "?q" >>, << "#" >>, << "#f" >> } }

\* primary_uri=None
NoString == << "None" >>

\* The values of the argument primary_uri.  The empty string is left out:
\* the truth value of URI('') on line 88 is decided by the URI library.
PrimaryStrings ==
    { NoString,
      << "a" >>, << "a", "/" >>,
      << "https://ex.org", "/", "a" >>,
      << "https://ex.org", "/", "a", "/" >>,
      << "https://ex.org", "/", "a", "/", "?q" >>,
      << "https://ex.org", "/", "a", "/", "#f" >> }

\* The values of the argument strip_suffixes: lists without repetition of
\* the suffixes '', '.yaml' and '.json'.
StripLists ==
    { l \in SeqsUpTo({ << >>, << ".yaml" >>, << ".json" >> }, MaxStrip) :
        \A x, y \in DOMAIN l : x # y => l[x] # l[y] }

\* The classes, LocationToURI and its subclass for URLs.
LtuClasses == {"LocationToURI", "URLToURI"}

\* str.endswith
EndsWith(s, suffix) ==
    /\ Len(s) >= Len(suffix)
    /\ SubSeq(s, Len(s) - Len(suffix) + 1, Len(s)) = suffix

\* ThingToURI._strip_suffixes, from the suffix at the head of to_strip on:
\* every string ends with '', and thing_string[:-0] is ''.
RECURSIVE ThingStripSuffixes(_, _)
ThingStripSuffixes(thing_string, to_strip) ==
    IF to_strip = << >> THEN thing_string
    ELSE IF EndsWith(thing_string, Head(to_strip))
    THEN IF Head(to_strip) = << >> THEN << >>
         ELSE SubSeq(thing_string, 1,
                     Len(thing_string) - Len(Head(to_strip)))
    ELSE ThingStripSuffixes(thing_string, Tail(to_strip))

\* Variant: the first suffix of the list is cut off whatever the string
\* ends with.
StripSuffixesBlind(location_string, to_strip) ==
    IF to_strip = << >> THEN location_string
    ELSE IF Head(to_strip) = << >> THEN location_string
    ELSE SubSeq(location_string, 1,
                Len(location_string) - Len(Head(to_strip)))

\* LocationToURI._strip_suffixes, from the suffix at the head of to_strip
\* on.
RECURSIVE StripSuffixes(_, _)
StripSuffixes(location_string, to_strip) ==
    IF to_strip = << >> THEN location_string
    ELSE IF Head(to_strip) = << >> THEN location_string
    ELSE IF EndsWith(location_string, Head(to_strip))
    THEN SubSeq(location_string, 1,
                Len(location_string) - Len(Head(to_strip)))
    ELSE StripSuffixes(location_string, Tail(to_strip))

\* URI(string): the components of a URI reference.  A component that is
\* absent is "none"; an empty query is "?", an empty fragment "#".
ParseURI(s) ==
    [ scheme   |-> IF s # << >> /\ s[1] = "https://ex.org"
                   THEN s[1] ELSE "none",
      path     |-> SelectSeq(s, LAMBDA x : x \in PathPieces),
      query    |-> IF \E n \in DOMAIN s : s[n] \in {"?", "?q"}
                   THEN s[CHOOSE n \in DOMAIN s : s[n] \in {"?", "?q"}]
                   ELSE "none",
      fragment |-> IF \E n \in DOMAIN s : s[n] \in {"#", "#f"}
                   THEN s[CHOOSE n \in DOMAIN s : s[n] \in {"#", "#f"}]
                   ELSE "none" ]

NoURI == [scheme |-> "none", path |-> << >>, query |-> "none",
          fragment |-> "none"]

\* str(uri): the components put together again.
Unsplit(uri) ==
    (IF uri.scheme = "none" THEN << >> ELSE << uri.scheme >>)
    \o uri.path
    \o (IF uri.query = "none" THEN << >> ELSE << uri.query >>)
    \o (IF uri.fragment = "none" THEN << >> ELSE << uri.fragment >>)

\* uri.path.endswith('/')
PathEndsWithSlash(uri) ==
    uri.path # << >> /\ uri.path[Len(uri.path)] = "/"

\* The truth value of a query or fragment: an absent or empty one is false.
NonEmpty(component) == component \notin {"none", "?", "#"}

\* The messages of the ValueErrors of the constructor.
ErrAdditional == "Cannot associate additional URIs with a URI prefix"
ErrUriPath == "URI prefix must have a path ending in '/'"
ErrUrlPath == "URL prefix must have a path ending in '/'"
ErrRelative == "cannot be relative"
ErrQueryFragment == "URI prefix may not include a query or fragment"

\* Variant: a URI without scheme is accepted.
ValidateOff(uri) == TRUE

\* uri.validate(require_scheme=True) raises no URIError.
Validate_require_scheme(uri) == uri.scheme # "none"

\* Variant: additional URIs are accepted with a prefix.
AdditionalWithPrefixOff(uri_is_prefix, additional_uris) == FALSE

\* Line 83: additional URIs are given together with the prefix flag.
AdditionalWithPrefix(uri_is_prefix, additional_uris) ==
    uri_is_prefix /\ additional_uris # << >>

\* Variant: the path of a prefix is not looked at.
PrefixWithoutSlashOff(uri_is_prefix, uri_obj) == FALSE

\* Line 101: the URI is a prefix and its path does not end in '/'.
PrefixWithoutSlash(uri_is_prefix, uri_obj) ==
    uri_is_prefix /\ ~PathEndsWithSlash(uri_obj)

\* Line 108: `uri_is_prefix and uri_obj.query or self.uri.fragment`.
QueryOrFragment(uri_is_prefix, uri_obj) ==
    (uri_is_prefix /\ NonEmpty(uri_obj.query)) \/ NonEmpty(uri_obj.fragment)

\* _set_location: "ok" or the message of the ValueError it raises.
SetLocation(cls, location, uri_is_prefix) ==
    IF cls = "URLToURI"
    THEN IF ~Validate_require_scheme(ParseURI(location)) THEN ErrRelative
         ELSE IF uri_is_prefix /\ ~PathEndsWithSlash(ParseURI(location))
         THEN ErrUrlPath
         ELSE "ok"
    ELSE "ok"

\* str(location): of the string itself, or of the URI that URLToURI keeps.
LocationString(cls, location) ==
    IF cls = "URLToURI" THEN Unsplit(ParseURI(location)) ELSE location

\* Variant: the URI is derived from the location even when primary_uri is
\* given.
UriObjAlwaysDerived(cls, location, primary_uri, to_strip) ==
    ParseURI(StripSuffixes(LocationString(cls, location), to_strip))

\* Lines 88-99: the URI object that the checks are made on.
UriObj(cls, location, primary_uri, to_strip) ==
    IF primary_uri # NoString /\ Len(Unsplit(ParseURI(primary_uri))) > 0
    THEN ParseURI(primary_uri)
    ELSE ParseURI(StripSuffixes(LocationString(cls, location), to_strip))

\* The object under construction, or what is left of the failed call.
LtuObject(cls, location, primary_uri, additional_uris, to_strip, uri_is_prefix, outcome, error, uri) ==
    [ cls |-> cls, location |-> location, primary_uri |-> primary_uri,
      additional_uris |-> additional_uris, to_strip |-> to_strip,
      uri_is_prefix |-> uri_is_prefix,
      auto_uri |-> (primary_uri = NoString \/ primary_uri = << >>),
      outcome |-> outcome, error |-> error, uri |-> uri ]

\* cls(location, primary_uri, additional_uris=..., strip_suffixes=to_strip,
\* uri_is_prefix=...): the checks of __init__ in the order of the code.
Construct(cls, location, primary_uri, additional_uris, to_strip, uri_is_prefix) ==
    LET uri_obj == UriObj(cls, location, primary_uri, to_strip)
        Failed(error) ==
            LtuObject(cls, location, primary_uri, additional_uris, to_strip,
                      uri_is_prefix, "ValueError", error, NoURI)
    IN  IF SetLocation(cls, location, uri_is_prefix) # "ok"
        THEN Failed(SetLocation(cls, location, uri_is_prefix))
        ELSE IF AdditionalWithPrefix(uri_is_prefix, additional_uris)
        THEN Failed(ErrAdditional)
        ELSE IF PrefixWithoutSlash(uri_is_prefix, uri_obj)
        THEN Failed(ErrUriPath)
        ELSE IF ~Validate_require_scheme(uri_obj)
        THEN Failed(ErrRelative)
        ELSE IF QueryOrFragment(uri_is_prefix, uri_obj)
        THEN Failed(ErrQueryFragment)
        ELSE LtuObject(cls, location, primary_uri, additional_uris,
                       to_strip, uri_is_prefix, "ok", "none", uri_obj)

NoLtu ==
    LtuObject("none", << >>, NoString, << >>, << >>, FALSE, "none", "none",
              NoURI)

\* One constructor call.
NewLocationToURI(cls, location, primary_uri, additional_uris, to_strip, uri_is_prefix) ==
    /\ ltu = NoLtu
    /\ ltu' = Construct(cls, location, primary_uri, additional_uris,
                        to_strip, uri_is_prefix)
    /\ UNCHANGED exceptLtu

NextLtu ==
    /\ ltu = NoLtu
    /\ \E cls \in LtuClasses, location \in LocationStrings,
          primary_uri \in PrimaryStrings,
          additional_uris \in { << >>, << << "https://ex.org", "/" >> >> },
          to_strip \in StripLists, uri_is_prefix \in BOOLEAN :
            NewLocationToURI(cls, location, primary_uri, additional_uris,
                             to_strip, uri_is_prefix)

(***************************************************************************)
(* The content parser: parse and _unknown_parse.                           *)
(***************************************************************************)
\* Number of calls of ContentParser.parse.
MaxParses == 2

\* What parse may find at full_path: the contents of a source, and a YAML
\* document that is not JSON.
ParserContents == Contents \cup {"yaml"}

\* The values of content_info: the suffixes with a parser, and one without.
ContentInfos == ParserSuffixes \cup {".txt"}

\* The error that _json_parse raises: the CatalogError of the loader, or
\* the CatalogError made from the JSONDecodeError.
JsonError(content) ==
    IF content = "absent" THEN "CatalogError: OSError"
    ELSE "CatalogError: JSONDecodeError"

\* The error that _yaml_parse raises: the CatalogError of the loader, or
\* the error of yaml.safe_load.
YamlError(content) ==
    IF content = "absent" THEN "CatalogError: OSError" ELSE "YAMLError"

\* What a call of parse did: the parsers it ran in order, how it ended, the
\* text of the error raised, and the underlying errors that text contains.
Parsed(content_info, content, ran, outcome, text, lists) ==
    [ content_info |-> content_info, content |-> content, ran |-> ran,
      outcome |-> outcome, text |-> text, lists |-> lists ]

\* The text of the CatalogError raised on lines 274-276 (the string is not
\* an f-string, and e1 and e2 are not part of it).
ErrUnknownType == "Could not determine content type of '{full_path}'"

\* ContentParser._unknown_parse, with the parsers it runs.
UnknownParseRun(content) ==
    IF JsonParse(content) = "ok"
    THEN Parsed("", content, << "json" >>, "ok", "none", << >>)
    ELSE IF YamlParse(content) = "ok"
    THEN Parsed("", content, << "json", "yaml" >>, "ok", "none", << >>)
    ELSE IF YamlParse(content) = "CatalogError"
    THEN Parsed("", content, << "json", "yaml" >>, "CatalogError",
                ErrUnknownType, << >>)
    ELSE Parsed("", content, << "json", "yaml" >>, YamlParse(content),
                YamlError(content), << YamlError(content) >>)

\* ContentParser.parse(full_path, content_info), the content at full_path
\* being `content`.
ParseRun(content_info, content) ==
    LET outcome == Parse(content_info, [s \in ParserSuffixes |-> content])
    IN  IF content_info \notin ParserSuffixes
        THEN Parsed(content_info, content, << >>, outcome, "KeyError", << >>)
        ELSE IF content_info = "" THEN UnknownParseRun(content)
        ELSE IF content_info = ".json"
        THEN Parsed(content_info, content, << "json" >>, outcome,
                    IF outcome = "ok" THEN "none" ELSE JsonError(content),
                    IF outcome = "ok" THEN << >>
                    ELSE << JsonError(content) >>)
        ELSE Parsed(content_info, content, << "yaml" >>, outcome,
                    IF outcome = "ok" THEN "none" ELSE YamlError(content),
                    IF outcome = "ok" THEN << >>
                    ELSE << YamlError(content) >>)

\* One call of parse.
ParseCall(content_info, content) ==
    /\ Len(parses) < MaxParses
    /\ parses' = Append(parses, ParseRun(content_info, content))
    /\ UNCHANGED exceptParse

NextParse ==
    \E content_info \in ContentInfos, content \in ParserContents :
        ParseCall(content_info, content)

(***************************************************************************)
(* The command line: cli.load with run, and ApiDescription.load.           *)
(***************************************************************************)
\* The two implementations of load.
Loads == {"cli.load", "ApiDescription.load"}

\* The entry resource that the arguments lead to: none at all, a document
\* without 'openapi' field, or a document with the field.
EntryResources == {"none", "no openapi", "3.0.3", "3.1.0", "2.0"}

\* The errors a call of validate returns.
ValidateErrors ==
    { << >>, << "schema" >>, << "reference" >>, << "schema", "reference" >> }

\* The errors a call of validate_graph returns.
GraphErrors ==
    { << >>, << "DanglingReference 1" >>, << "DanglingReference 2" >>,
      << "DanglingReference 1", "DanglingReference 2" >> }

ErrConfiguration == "configuration"

NoRun ==
    [ load |-> "none", entry |-> "none", examples |-> "true",
      pc |-> "idle", desc |-> FALSE, errors |-> << >>, calls |-> << >>,
      returns |-> << >>, validate_examples |-> "none", status |-> "none" ]

\* load is entered with the option -x (--examples) `examples`; the entry
\* resource is looked for.
Load(load, entry, examples) ==
    /\ run.pc = "idle"
    /\ run' = [NoRun EXCEPT !.load = load, !.entry = entry,
                            !.examples = examples, !.pc = "check"]
    /\ UNCHANGED exceptRun

\* Variant: the error is noted and load goes on with the description.
ConfigurationErrorGoesOn ==
    /\ run.pc = "check"
    /\ run.entry \in {"none", "no openapi"}
    /\ run' = [run EXCEPT !.pc = "validate", !.desc = TRUE,
                          !.errors = Append(@, ErrConfiguration),
                          !.calls = Append(@, "ApiDescription")]
    /\ UNCHANGED exceptRun

\* cli.py lines 453-469 and apidescription.py lines 738-742: there is no
\* entry resource, or none with an 'openapi' field; load returns.
ConfigurationError ==
    /\ run.pc = "check"
    /\ run.entry \in {"none", "no openapi"}
    /\ run' = [run EXCEPT !.pc = "returned",
                          !.errors = Append(@, ErrConfiguration)]
    /\ UNCHANGED exceptRun

\* ApiDescription.__init__ raises for a version other than 3.0.x.
BuildDescriptionRaises ==
    /\ run.pc = "check"
    /\ run.entry \in {"3.1.0", "2.0"}
    /\ run' = [run EXCEPT !.pc = "done", !.status = "raised",
                          !.calls = Append(@, "ApiDescription")]
    /\ UNCHANGED exceptRun

\* desc = ApiDescription(...)
BuildDescription ==
    /\ run.pc = "check"
    /\ run.entry = "3.0.3"
    /\ run' = [run EXCEPT !.pc = "validate", !.desc = TRUE,
                          !.calls = Append(@, "ApiDescription")]
    /\ UNCHANGED exceptRun

\* errors.extend(desc.validate(...)); cli.load returns when there are
\* errors (lines 477-482).
RunValidate(errors) ==
    /\ run.pc = "validate"
    /\ run' = [run EXCEPT !.errors = @ \o errors,
                          !.calls = Append(@, "validate"),
                          !.returns = Append(@, errors),
                          !.validate_examples = (run.examples = "true"),
                          !.pc = IF run.load = "cli.load" /\ errors # << >>
                                 THEN "returned" ELSE "graph"]
    /\ UNCHANGED exceptRun

\* Variant: the errors of validate_graph are dropped.
RunValidateGraphDropped(errors) ==
    /\ run.pc = "graph"
    /\ run' = [run EXCEPT !.calls = Append(@, "validate_graph"),
                          !.returns = Append(@, errors),
                          !.pc = "returned"]
    /\ UNCHANGED exceptRun

\* errors.extend(desc.validate_graph())
RunValidateGraph(errors) ==
    /\ run.pc = "graph"
    /\ run' = [run EXCEPT !.errors = @ \o errors,
                          !.calls = Append(@, "validate_graph"),
                          !.returns = Append(@, errors),
                          !.pc = "returned"]
    /\ UNCHANGED exceptRun

\* run (cli.py lines 499-519) and the end of ApiDescription.load: the run
\* is reported as failed when there are errors.
Report ==
    /\ run.pc = "returned"
    /\ run' = [run EXCEPT !.pc = "done",
                          !.status = IF run.errors # << >> THEN "failed"
                                     ELSE "valid"]
    /\ UNCHANGED exceptRun

NextRun ==
    \/ \E load \in Loads, entry \in EntryResources,
          examples \in {"true", "false"} : Load(load, entry, examples)
    \/ ConfigurationError
    \/ BuildDescriptionRaises
    \/ BuildDescription
    \/ \E errors \in ValidateErrors : RunValidate(errors)
    \/ \E errors \in GraphErrors : RunValidateGraph(errors)
    \/ Report

(***************************************************************************)
(* Registration of sources and the url and sourcemap tables.               *)
(***************************************************************************)
\* Number of sources registered.
MaxRegistered == 2

\* Number of loads.
MaxResolutions == 2

\* The two catalogs with shared tables: a jschon catalog managed by an
\* OASResourceManager of resource.py, whose sources are OASSource objects of
\* oassource.py, and an OasCatalog of oasjson.py, whose sources are the
\* MultiSuffixSource objects of oasjson.py.
RegCatalogs == {"OASResourceManager", "OasCatalog"}

\* The base_uri argument of add_uri_source, a string given as the sequence
\* of its pieces: None, or a URI prefix.
NoBaseUri == << "None" >>

BaseUris == { NoBaseUri, << "https://a/" >>, << "https://a/", "b/" >> }

\* The relative paths a catalog calls a source with: the requested
\* identifier without the prefix the source is registered under.
RegRelativePaths == { << "x" >>, << "b/", "x" >>, << "https://a/", "x" >> }

\* set_uri_prefix, and the base_uri setter: '' if base_uri is None.
SetUriPrefix(base_uri) == IF base_uri = NoBaseUri THEN << >> ELSE base_uri

\* The identifier the catalog was asked for, without fragment: the prefix
\* of the source followed by the relative path.
BaseUri(source, relative_path) == source.uri_prefix \o relative_path

\* No value: of a call that has read nothing.
NoEntry == [source |-> 0, path |-> << >>, what |-> "none"]

\* content.url and content.sourcemap of a resolution by source number n.
ContentUrl(n, relative_path) ==
    [source |-> n, path |-> relative_path, what |-> "url"]

ContentSourcemap(n, relative_path) ==
    [source |-> n, path |-> relative_path, what |-> "sourcemap"]

\* A table: a dict, given as the set of its items.
EmptyTable == { }

Item(key, value) == [key |-> key, value |-> value]

\* table[key] = value
SetItem(table, key, value) ==
    { item \in table : item.key # key } \cup { Item(key, value) }

\* OASSource.map_url and map_sourcemap: the key of the entry written,
\* URI(str(self._uri_prefix) + relative_path).
MapKey(source, relative_path) == source.uri_prefix \o relative_path

\* MultiSuffixSource.__call__ of oasjson.py: the key of the entries written,
\* self.uri_url_map[relative_path].
CallKey(source, relative_path) == relative_path

\* The outcome of a dict[key] that raises KeyError.
KeyError == [source |-> 0, path |-> << >>, what |-> "KeyError"]

\* dict[key]: the value, or KeyError.
Lookup(table, key) ==
    IF \E item \in table : item.key = key
    THEN (CHOOSE item \in table : item.key = key).value
    ELSE KeyError

NoResolution ==
    [ n |-> 0, source |-> 0, relative_path |-> << >>, outcome |-> "none",
      url |-> NoEntry, sourcemap |-> NoEntry ]

\* OASResourceManager.add_uri_source(catalog, base_uri, source), and
\* OasCatalog.add_uri_source(base_uri, source): the source gets its prefix
\* and the tables of the catalog.
AddUriSource(catalog, base_uri) ==
    /\ Len(registered) < MaxRegistered
    /\ registered' = Append(registered,
                        [ catalog |-> catalog,
                          uri_prefix |-> SetUriPrefix(base_uri) ])
    /\ UNCHANGED << url_maps, sourcemap_maps, resolution >>
    /\ UNCHANGED exceptReg

\* A load whose resolve_resource (or _search_suffixes) raises CatalogError:
\* nothing is recorded and nothing is read back.
ResolutionFails(n, relative_path) ==
    /\ resolution.n < MaxResolutions
    /\ resolution' = [ n |-> resolution.n + 1, source |-> n,
                       relative_path |-> relative_path,
                       outcome |-> "CatalogError",
                       url |-> NoEntry, sourcemap |-> NoEntry ]
    /\ UNCHANGED << registered, url_maps, sourcemap_maps >>
    /\ UNCHANGED exceptReg

\* OASResourceManager._get_with_url_and_sourcemap for an identifier that
\* source number n, an OASSource, resolves: OASSource.__call__ records the
\* locator and the sourcemap, then get_url and get_sourcemap read the
\* tables under the identifier without fragment.
GetWithUrlAndSourcemap(n, relative_path) ==
    LET source == registered[n]
        catalog == source.catalog
        key == MapKey(source, relative_path)
        base_uri == BaseUri(source, relative_path)
    IN  /\ resolution.n < MaxResolutions
        /\ catalog = "OASResourceManager"
        /\ url_maps' = [url_maps EXCEPT
                          ![catalog] =
                              SetItem(@, key,
                                      ContentUrl(n, relative_path))]
        /\ sourcemap_maps' = [sourcemap_maps EXCEPT
                          ![catalog] =
                              SetItem(@, key,
                                      ContentSourcemap(n, relative_path))]
        /\ resolution' =
             [ n |-> resolution.n + 1, source |-> n,
               relative_path |-> relative_path, outcome |-> "returned",
               url |-> Lookup(url_maps'[catalog], base_uri),
               sourcemap |->
                  IF Lookup(url_maps'[catalog], base_uri) = KeyError
                  THEN NoEntry
                  ELSE Lookup(sourcemap_maps'[catalog], base_uri) ]
        /\ UNCHANGED registered
        /\ UNCHANGED exceptReg

\* OasCatalog.get_resource for an identifier that source number n, a
\* MultiSuffixSource of oasjson.py, resolves: MultiSuffixSource.__call__
\* records the locator and the sourcemap, then get_resource reads
\* self._uri_url_map[base_uri] and self._uri_sourcemap_map[base_uri].
GetResourceOasCatalog(n, relative_path) ==
    LET source == registered[n]
        catalog == source.catalog
        key == CallKey(source, relative_path)
        base_uri == BaseUri(source, relative_path)
    IN  /\ resolution.n < MaxResolutions
        /\ catalog = "OasCatalog"
        /\ url_maps' = [url_maps EXCEPT
                          ![catalog] =
                              SetItem(@, key,
                                      ContentUrl(n, relative_path))]
        /\ sourcemap_maps' = [sourcemap_maps EXCEPT
                          ![catalog] =
                              SetItem(@, key,
                                      ContentSourcemap(n, relative_path))]
        /\ resolution' =
             [ n |-> resolution.n + 1, source |-> n,
               relative_path |-> relative_path, outcome |-> "returned",
               url |-> Lookup(url_maps'[catalog], base_uri),
               sourcemap |->
                  IF Lookup(url_maps'[catalog], base_uri) = KeyError
                  THEN NoEntry
                  ELSE Lookup(sourcemap_maps'[catalog], base_uri) ]
        /\ UNCHANGED registered
        /\ UNCHANGED exceptReg

\* Registrations and loads, in any order.
NextReg ==
    \/ \E catalog \in RegCatalogs, base_uri \in BaseUris :
          AddUriSource(catalog, base_uri)
    \/ \E n \in 1..Len(registered), relative_path \in RegRelativePaths :
          \/ ResolutionFails(n, relative_path)
          \/ GetWithUrlAndSourcemap(n, relative_path)
          \/ GetResourceOasCatalog(n, relative_path)

(***************************************************************************)
(* The HTTP loader: load and _parse_content_type.                          *)
(***************************************************************************)
\* Number of calls of HttpLoader.load.
MaxHttpLoads == 1

\* response.headers.get('Content-Type') of a response without the header.
NoHeader == << "None" >>

\* The Content-Type values, as sequences of pieces: a token, "/", "+", or
\* a parameter, which starts with a character that is not a TCHAR.
Parameter == "; charset=utf-8"

ContentTypes ==
    { NoHeader,
      << "application", "/", "json" >>,
      << "application", "/", "json", Parameter >>,
      << "application", "/", "openapi", "+", "json" >>,
      << "application", "/", "yaml" >>,
      << "text", "/", "x-yaml" >>,
      << "application", "/", "openapi", "+", "yaml" >>,
      << "application", "/", "vnd.a", "+", "json", "+", "xml" >>,
      << "text", "/", "html" >>,
      << "json" >> }

\* The URLs requested: a path with or without suffix, with or without query.
HttpUrls ==
    { << "https://ex.org", "/", "a" >> \o sfx \o query :
        sfx \in { << >>, << ".json" >>, << ".yaml" >>, << ".yml" >>,
                  << ".txt" >> },
        query \in { << >>, << "?q" >> } }

\* How requests.get and raise_for_status end.
Responses == {"ok", "HTTPError", "ConnectionError"}

\* A piece made of TCHARs only ('+' is a TCHAR, '/' and ';' are not).
IsTchars(piece) == piece \notin {"/", Parameter}

\* The longest prefix of s made of TCHAR pieces.
RECURSIVE TcharRun(_)
TcharRun(s) ==
    IF s = << >> \/ ~IsTchars(s[1]) THEN << >>
    ELSE << s[1] >> \o TcharRun(Tail(s))

\* str.split('+') of a run of tokens joined by '+'.
SplitPlus(tokens) == SelectSeq(tokens, LAMBDA x : x # "+")

\* _parse_content_type(ctype): major type, subtype and structured suffix;
\* application/octet-stream without suffix when ctype does not match.
ParseContentType(ctype) ==
    LET matches  == /\ Len(ctype) >= 3
                    /\ IsTchars(ctype[1]) /\ ctype[1] # "+"
                    /\ ctype[2] = "/"
                    /\ IsTchars(ctype[3])
        pieces   == SplitPlus(TcharRun(SubSeq(ctype, 3, Len(ctype))))
    IN  IF matches
        THEN [ major_type |-> ctype[1], subtype |-> pieces[1],
               suffix |-> IF Len(pieces) > 1 THEN pieces[Len(pieces)]
                          ELSE "None" ]
        ELSE [ major_type |-> "application", subtype |-> "octet-stream",
               suffix |-> "None" ]

\* jschon.URI(url).path: the URL without scheme, authority and query.
UrlPath(url) == SelectSeq(url, LAMBDA x : x \notin {"https://ex.org", "?q"})

\* p.endswith(sfx)
PathEndsWith(p, sfx) == p # << >> /\ p[Len(p)] = sfx

\* The parse type that the URL path gives: '' when the suffix is unknown.
SuffixParseType(url) ==
    LET p == UrlPath(url)
    IN  IF PathEndsWith(p, ".json") THEN ".json"
        ELSE IF PathEndsWith(p, ".yaml") \/ PathEndsWith(p, ".yml")
        THEN ".yaml"
        ELSE ""

\* The parse type chosen from subtype and suffix, then from the URL.
ParseType(url, subtype, suffix) ==
    IF subtype = "json" \/ suffix = "json" THEN ".json"
    ELSE IF subtype \in {"yaml", "x-yaml"} \/ suffix \in {"yaml", "x-yaml"}
    THEN ".yaml"
    ELSE SuffixParseType(url)

\* The record of one call: its inputs, how it ended and, when it returned,
\* the parse_type of the LoadedContent.
Loaded(url, ctype, response, outcome, parse_type) ==
    [ url |-> url, ctype |-> ctype, response |-> response,
      outcome |-> outcome, parse_type |-> parse_type ]

\* HttpLoader.load(url), the response having the Content-Type ctype: a
\* RequestException becomes a CatalogError; the names subtype and suffix
\* are bound only when the header is present, and reading them unbound
\* raises UnboundLocalError, which load does not catch.
HttpLoad(url, ctype, response) ==
    /\ Len(http) < MaxHttpLoads
    /\ http' = Append(http,
         IF response # "ok"
         THEN Loaded(url, ctype, response, "CatalogError", "none")
         ELSE IF ctype # NoHeader
         THEN LET t == ParseContentType(ctype)
              IN  Loaded(url, ctype, response, "returned",
                         ParseType(url, t.subtype, t.suffix))
         ELSE Loaded(url, ctype, response, "UnboundLocalError", "none"))
    /\ UNCHANGED exceptHttp

\* Any sequence of loads.
NextHttp ==
    /\ Len(http) < MaxHttpLoads
    /\ \E url \in HttpUrls, ctype \in ContentTypes, response \in Responses :
          HttpLoad(url, ctype, response)

(***************************************************************************)
(* Construction of OasJson nodes: __init__, _handle_root,                  *)
(* _determine_metaschema and _determine_uri_and_url.                       *)
(***************************************************************************)
\* Number of nodes constructed.
MaxNodes == 3

\* The traversal keys, strings given as the sequences of their pieces.
NodeKeys == { << "a" >>, << "a", "/", "b" >>, << "~", "a" >> }

\* A fragment of None, and the value None of other arguments.
NoFragment == << "None" >>

NoneValue == << "None" >>

\* The documents: their identifier and their locator without fragment.
NodeDocs == {"x", "y"}

DocUri(doc) == << "https://a/", doc >>

DocUrl(doc) == << "file:///", doc, ".json" >>

\* The values of a root: with or without the fields 'openapi' and
\* 'jsonSchemaDialect'.
Absent == << >>

CustomDialect == "https://example.com/dialect"

RootValue(version_field, dialect) ==
    [openapi |-> version_field, jsonSchemaDialect |-> dialect]

\* The value of a root with the oasversion argument of its construction.
VersionArgs ==
    { [ value |-> RootValue(<< "3", ".", "0", ".", "3" >>, "absent"),
        oasversion |-> NoneValue ],
      [ value |-> RootValue(<< "3", ".", "1", ".", "0" >>, "absent"),
        oasversion |-> NoneValue ],
      [ value |-> RootValue(<< "3", ".", "1", ".", "0" >>, CustomDialect),
        oasversion |-> NoneValue ],
      [ value |-> RootValue(<< "2", ".", "0" >>, "absent"),
        oasversion |-> NoneValue ],
      [ value |-> RootValue(Absent, "absent"), oasversion |-> NoneValue ],
      [ value |-> RootValue(Absent, "absent"),
        oasversion |-> << "3", ".", "0" >> ],
      [ value |-> RootValue(<< "3", ".", "1", ".", "0" >>, "absent"),
        oasversion |-> << "3", ".", "0" >> ] }

\* The sourcemap argument: None, or the sourcemap of the document.
Sourcemaps(doc) == { NoneValue, << "sourcemap of ", doc >> }

\* The fragment of the uri and url arguments of a root: None or ''.
RootFragments == { NoFragment, << >> }

\* A URI with JSON Pointer fragment.
WithFragment(base, fragment) == [base |-> base, fragment |-> fragment]

\* One piece of a pointer token in its escaped form, and back.
EscapePiece(piece) ==
    IF piece = "~" THEN "~0" ELSE IF piece = "/" THEN "~1" ELSE piece

UnescapePiece(piece) ==
    IF piece = "~0" THEN "~" ELSE IF piece = "~1" THEN "/" ELSE piece

Escape(key) == [i \in DOMAIN key |-> EscapePiece(key[i])]

Unescape(token) == [i \in DOMAIN token |-> UnescapePiece(token[i])]

\* The pieces of s before its first "/".
RECURSIVE UpToSlash(_)
UpToSlash(s) ==
    IF s = << >> \/ s[1] = "/" THEN << >>
    ELSE << s[1] >> \o UpToSlash(Tail(s))

\* JsonPtr.parse_uri_fragment(fragment): the unescaped tokens of a pointer
\* in its string form.
RECURSIVE ParseUriFragment(_)
ParseUriFragment(fragment) ==
    IF fragment = << >> THEN << >>
    ELSE LET token == UpToSlash(Tail(fragment))
         IN  << Unescape(token) >>
             \o ParseUriFragment(
                   SubSeq(fragment, Len(token) + 2, Len(fragment)))

\* str(ptr): each token escaped and preceded by "/".
RECURSIVE JsonPtrString(_)
JsonPtrString(ptr) ==
    IF ptr = << >> THEN << >>
    ELSE << "/" >> \o Escape(ptr[1]) \o JsonPtrString(Tail(ptr))

\* ptr / key
PtrDiv(ptr, key) == Append(ptr, key)

\* parent.uri.copy_with(fragment=parse_uri_fragment(str(fragment)) / key)
ExtendFragment(uri, key) ==
    WithFragment(uri.base,
                 JsonPtrString(PtrDiv(ParseUriFragment(uri.fragment), key)))

\* `if not self.uri.fragment`: a fragment of None or '' becomes ''.
EnsureFragment(uri) ==
    IF uri.fragment \in { NoFragment, << >> }
    THEN WithFragment(uri.base, << >>)
    ELSE uri

\* value['openapi'][:3]
ChopPatch(version_field) == SubSeq(version_field, 1, 3)

\* _determine_metaschema: the metaschema URI, or the ValueError.
DetermineMetaschema(oasversion, value) ==
    IF oasversion = << "3", ".", "1" >>
    THEN IF value.jsonSchemaDialect = "absent"
         THEN "https://spec.openapis.org/oas/3.1/dialect/base"
         ELSE value.jsonSchemaDialect
    ELSE IF oasversion = << "3", ".", "0" >>
    THEN "https://spec.openapis.org/oas/v3.0/dialect/base"
    ELSE "ValueError"

\* The fields that _handle_root sets.
Handled(document_root, oasversion, sourcemap, metaschema) ==
    [ document_root |-> document_root, oasversion |-> oasversion,
      sourcemap |-> sourcemap, metaschema |-> metaschema ]

\* What is left of a _handle_root call that raises ValueError.
HandleRootRaises == Handled(0, NoneValue, NoneValue, "ValueError")

\* Variant: the child keeps the sourcemap argument of its construction.
HandleRootKeepsArgument(tree, parent, sourcemap) ==
    LET root == tree[parent].document_root
    IN  Handled(root, tree[root].oasversion, sourcemap,
                tree[root].metaschema)

\* _handle_root with a parent: the fields are those of the document root
\* of the parent.
HandleRootOfChild(tree, parent, sourcemap) ==
    LET root == tree[parent].document_root
    IN  Handled(root, tree[root].oasversion, tree[root].sourcemap,
                tree[root].metaschema)

\* _handle_root without parent: the node is its own document root, number
\* self; ValueError when no version is given or it is not supported.
HandleRootOfRoot(self, value, oasversion, sourcemap) ==
    IF oasversion = NoneValue /\ value.openapi = Absent
    THEN HandleRootRaises
    ELSE LET version == IF oasversion = NoneValue
                        THEN ChopPatch(value.openapi)
                        ELSE oasversion
         IN  IF DetermineMetaschema(version, value) = "ValueError"
             THEN HandleRootRaises
             ELSE Handled(self, version, sourcemap,
                          DetermineMetaschema(version, value))

\* A node: its parent (0: none), its key and the attributes set.
OasJsonNode(parent, key, uri, url, handled) ==
    [ parent |-> parent, key |-> key, uri |-> uri, url |-> url,
      document_root |-> handled.document_root,
      oasversion |-> handled.oasversion,
      sourcemap |-> handled.sourcemap,
      metaschema |-> handled.metaschema ]

NoBuilt == [kind |-> "none", outcome |-> "none", node |-> 0]

\* OasJson(value, uri=..., url=..., oasversion=..., sourcemap=...) without
\* parent.
NewRoot(doc, args, uri_fragment, url_fragment, sourcemap) ==
    LET self == Len(nodes) + 1
        handled == HandleRootOfRoot(self, args.value, args.oasversion,
                                    sourcemap)
    IN  /\ Len(nodes) < MaxNodes
        /\ IF handled = HandleRootRaises
           THEN /\ built' = [kind |-> "root", outcome |-> "ValueError",
                             node |-> 0]
                /\ UNCHANGED nodes
           ELSE /\ nodes' = Append(nodes,
                      OasJsonNode(0, << >>,
                         EnsureFragment(
                            WithFragment(DocUri(doc), uri_fragment)),
                         EnsureFragment(
                            WithFragment(DocUrl(doc), url_fragment)),
                         handled))
                /\ built' = [kind |-> "root", outcome |-> "ok",
                             node |-> self]
        /\ UNCHANGED exceptNode

\* itemclass(v, parent=parent, key=key, **itemkwargs): the construction of
\* a child, which JSON.__init__ of the parent calls for each of its items
\* once uri, url and the root fields of the parent are set.
NewChild(parent, key) ==
    LET self == Len(nodes) + 1
    IN  /\ Len(nodes) < MaxNodes
        /\ nodes' = Append(nodes,
              OasJsonNode(parent, key,
                 EnsureFragment(ExtendFragment(nodes[parent].uri, key)),
                 EnsureFragment(ExtendFragment(nodes[parent].url, key)),
                 HandleRootOfChild(nodes, parent, NoneValue)))
        /\ built' = [kind |-> "child", outcome |-> "ok", node |-> self]
        /\ UNCHANGED exceptNode

\* The constructions, in any order in which parents come before children.
NextNode ==
    /\ Len(nodes) < MaxNodes
    /\ \/ \E doc \in NodeDocs, args \in VersionArgs,
             uri_fragment \in RootFragments, url_fragment \in RootFragments :
             \E sourcemap \in Sourcemaps(doc) :
                NewRoot(doc, args, uri_fragment, url_fragment, sourcemap)
       \/ \E parent \in 1..Len(nodes), key \in NodeKeys :
             NewChild(parent, key)

Init ==
    /\ validated = <<>>
    /\ stack = <<>>
    /\ graph = {}
    /\ status = "idle"
    /\ result = <<>>
    /\ ncalls = 0
    /\ nparse = [u \in Uris |-> 0]
    /\ nannots = 0
    /\ discovered = [u \in Uris |-> {}]
    /\ late = {}
    /\ completed = {}
    /\ failed = NoUri
    /\ failure = "none"
    /\ schema_cache = [c \in CacheIds |-> [d \in Docs |-> 0]]
    /\ loads = <<>>
    /\ call = NoCall
    /\ returned = [r \in Requests |-> {}]
    /\ data = InitialData
    /\ nnodes = 3
    /\ nresolved = [k \in Keys |-> 0]
    /\ nconv = [k \in Keys |-> 0]
    /\ converted = [k \in Keys |-> NoChild]
    /\ conv = [key |-> "none", node |-> NoChild, outcome |-> "none"]
    /\ uri_url_map = [x \in RelativePaths |-> NoPath]
    /\ res = NoRes
    /\ direct_sources = [c \in Catalogs |-> 0]
    /\ uri_sources = [c \in Catalogs |-> <<>>]
    /\ source_map = [n \in SourceIds |-> EmptyMapping]
    /\ updates = [c \in Catalogs |-> <<>>]
    /\ farg = [ file |-> [dir |-> <<>>, name |-> "none"], explicit |-> FALSE,
                declared |-> <<>>, uri |-> NoAssignedUri ]
    /\ ltu = NoLtu
    /\ parses = << >>
    /\ run = NoRun
    /\ registered = << >>
    /\ url_maps = [c \in RegCatalogs |-> EmptyTable]
    /\ sourcemap_maps = [c \in RegCatalogs |-> EmptyTable]
    /\ resolution = NoResolution
    /\ http = << >>
    /\ nodes = << >>
    /\ built = NoBuilt

\* Entry of a top-level call validate(u, validate_examples=ve).
Call(u, ve) ==
    /\ stack' = << NewFrame(u, ve) >>
    /\ status' = "running"
    /\ ncalls' = ncalls + 1
    /\ discovered' = [x \in Uris |-> {}]
    /\ late' = {}
    /\ completed' = {}
    /\ result' = <<>>
    /\ UNCHANGED exceptDriver
    /\ UNCHANGED << validated, graph, nparse, nannots, failed, failure >>

\* ApiDescription.load: desc.validate(validate_examples=...) on the primary
\* resource of a freshly constructed ApiDescription.
Validate(ve) ==
    /\ status = "idle"
    /\ Call(PrimaryUri, ve)

\* A caller of the class invokes validate(u) again after a call returned.
Revalidate(u, ve) ==
    /\ status = "returned"
    /\ ncalls < MaxCalls
    /\ Call(u, ve)

\* self.get_resource raises (or returns None and the assertion fails): the
\* exception is caught nowhere and leaves every activation (lines 263-264).
GetResourceRaises ==
    /\ Running /\ Top.phase = "enter"
    /\ stack' = <<>>
    /\ status' = "raised"
    /\ failed' = Top.uri
    /\ failure' = "load"
    /\ UNCHANGED exceptDriver
    /\ UNCHANGED << validated, graph, result, ncalls, nparse, nannots,
                    discovered, late, completed >>

\* The validator reports a failure: sp.parse raises JsonSchemaParseError,
\* which is logged and followed by sys.exit(-1) (lines 268-275).
ParseExits ==
    /\ Running /\ Top.phase = "enter"
    /\ nparse' = [nparse EXCEPT ![Top.uri] = @ + 1]
    /\ stack' = <<>>
    /\ status' = "exited"
    /\ failed' = Top.uri
    /\ failure' = "instance"
    /\ UNCHANGED exceptDriver
    /\ UNCHANGED << validated, graph, result, ncalls, nannots, discovered,
                    late, completed >>

\* Variant: the identifier is appended to self._validated before the
\* annotations are looked at.
UnexpectedAnnotationLate(output) ==
    /\ Running /\ Top.phase = "enter"
    /\ \E n \in 1..Len(output) : ~HasHandler(output[n])
    /\ nparse' = [nparse EXCEPT ![Top.uri] = @ + 1]
    /\ validated' = Append(validated, Top.uri)
    /\ stack' = <<>>
    /\ status' = "raised"
    /\ failed' = Top.uri
    /\ failure' = "keyword"
    /\ UNCHANGED exceptDriver
    /\ UNCHANGED << graph, result, ncalls, nannots, discovered, late,
                    completed >>

\* The validator succeeds but an annotation has no handler: ValueError
\* (lines 279-288), raised before line 289 appends to self._validated.
UnexpectedAnnotation(output) ==
    /\ Running /\ Top.phase = "enter"
    /\ \E n \in 1..Len(output) : ~HasHandler(output[n])
    /\ nparse' = [nparse EXCEPT ![Top.uri] = @ + 1]
    /\ stack' = <<>>
    /\ status' = "raised"
    /\ failed' = Top.uri
    /\ failure' = "keyword"
    /\ UNCHANGED exceptDriver
    /\ UNCHANGED << validated, graph, result, ncalls, nannots, discovered,
                    late, completed >>

\* Variant: the identifier is not appended to self._validated before the
\* loop over ANNOT_ORDER.
PartitionWithoutAppend(output) ==
    /\ Running /\ Top.phase = "enter"
    /\ \A n \in 1..Len(output) : HasHandler(output[n])
    /\ nparse' = [nparse EXCEPT ![Top.uri] = @ + 1]
    /\ nannots' = nannots + Len(output)
    /\ stack' = SetTop(AtIteration([Top EXCEPT
                                      !.by_method = ByMethod(output)], 1))
    /\ UNCHANGED exceptDriver
    /\ UNCHANGED << validated, graph, status, result, ncalls, discovered,
                    late, completed, failed, failure >>

\* The validator succeeds and every annotation has a handler: the annotations
\* are partitioned and the identifier is appended to self._validated
\* (lines 277-289); then the loop over ANNOT_ORDER starts.
Partition(output) ==
    /\ Running /\ Top.phase = "enter"
    /\ \A n \in 1..Len(output) : HasHandler(output[n])
    /\ nparse' = [nparse EXCEPT ![Top.uri] = @ + 1]
    /\ nannots' = nannots + Len(output)
    /\ validated' = Append(validated, Top.uri)
    /\ stack' = SetTop(AtIteration([Top EXCEPT
                                      !.by_method = ByMethod(output)], 1))
    /\ UNCHANGED exceptDriver
    /\ UNCHANGED << graph, status, result, ncalls, discovered, late,
                    completed, failed, failure >>

\* Variant: the recursive call is made without looking at self._validated.
DrainCallUnguarded ==
    /\ Running /\ Top.phase = "drain" /\ Top.j <= Len(Top.to_validate)
    /\ stack' = Append(SetTop([Top EXCEPT !.j = @ + 1]),
                       NewFrame(Top.to_validate[Top.j],
                                Top.validate_examples))
    /\ UNCHANGED exceptDriver
    /\ UNCHANGED << validated, graph, status, result, ncalls, nparse, nannots,
                    discovered, late, completed, failed, failure >>

\* One iteration of `for uri, oastype in to_validate.items()`: a target that
\* is not in self._validated is validated recursively (lines 294-300).
DrainCall ==
    /\ Running /\ Top.phase = "drain" /\ Top.j <= Len(Top.to_validate)
    /\ Top.to_validate[Top.j] \notin Range(validated)
    /\ stack' = Append(SetTop([Top EXCEPT !.j = @ + 1]),
                       NewFrame(Top.to_validate[Top.j],
                                Top.validate_examples))
    /\ UNCHANGED exceptDriver
    /\ UNCHANGED << validated, graph, status, result, ncalls, nparse, nannots,
                    discovered, late, completed, failed, failure >>

\* A target that is already in self._validated is passed over (line 295).
DrainSkip ==
    /\ Running /\ Top.phase = "drain" /\ Top.j <= Len(Top.to_validate)
    /\ Top.to_validate[Top.j] \in Range(validated)
    /\ stack' = SetTop([Top EXCEPT !.j = @ + 1])
    /\ UNCHANGED exceptDriver
    /\ UNCHANGED << validated, graph, status, result, ncalls, nparse, nannots,
                    discovered, late, completed, failed, failure >>

\* Variant: the add_oasexamples calls are made whatever the flag.
DrainDoneFlagIgnored ==
    /\ Running /\ Top.phase = "drain" /\ Top.j > Len(Top.to_validate)
    /\ stack' = SetTop([Top EXCEPT !.phase = "call"])
    /\ UNCHANGED exceptDriver
    /\ UNCHANGED << validated, graph, status, result, ncalls, nparse, nannots,
                    discovered, late, completed, failed, failure >>

\* All targets were seen: either skip the examples (`continue`, lines
\* 301-303) or go on to the add_oasexamples calls.
DrainDone ==
    /\ Running /\ Top.phase = "drain" /\ Top.j > Len(Top.to_validate)
    /\ stack' = SetTop(IF Top.validate_examples
                       THEN [Top EXCEPT !.phase = "call"]
                       ELSE AtIteration(Top, Top.i + 1))
    /\ UNCHANGED exceptDriver
    /\ UNCHANGED << validated, graph, status, result, ncalls, nparse, nannots,
                    discovered, late, completed, failed, failure >>

\* graph_result = method_callable(*args) for the next annotation of the
\* current kind, then the two loops over its errors and refTargets
\* (lines 305-312).  value is the annotation's value, nerr the number of
\* errors the handler reports.
Handler(value, nerr) ==
    /\ Running /\ Top.phase = "call"
    /\ Top.by_method[ANNOT_ORDER[Top.i]] > 0
    /\ LET kind == ANNOT_ORDER[Top.i]
           refTargets == RefTargets(kind, Top.uri, value)
           errs == IF kind = "oasReferences" \/ nerr = 0 THEN <<>>
                   ELSE << Top.uri >>
       IN /\ graph' = graph \cup {Top.uri}
          /\ stack' = SetTop([Top EXCEPT
                                !.k = @ + 1,
                                !.by_method[kind] = @ - 1,
                                !.errors = @ \o errs,
                                !.to_validate = AddTargets(@, refTargets)])
          /\ IF kind = "oasExamples"
             THEN /\ late' = late \cup Range(refTargets)
                  /\ UNCHANGED discovered
             ELSE /\ discovered' = [discovered EXCEPT
                                      ![Top.uri] = @ \cup Range(refTargets)]
                  /\ UNCHANGED late
    /\ UNCHANGED exceptDriver
    /\ UNCHANGED << validated, status, result, ncalls, nparse, nannots,
                    completed, failed, failure >>

\* The annotations of the current kind are exhausted: next kind.
EndKind ==
    /\ Running /\ Top.phase = "call"
    /\ Top.by_method[ANNOT_ORDER[Top.i]] = 0
    /\ stack' = SetTop(AtIteration(Top, Top.i + 1))
    /\ UNCHANGED exceptDriver
    /\ UNCHANGED << validated, graph, status, result, ncalls, nparse, nannots,
                    discovered, late, completed, failed, failure >>

\* `return errors` (line 314): a recursive call hands its errors to
\* errors.extend of the caller, the top-level call to its caller.
Return ==
    /\ Running /\ Top.phase = "return"
    /\ completed' = completed \cup {Top.uri}
    /\ IF Len(stack) = 1
       THEN /\ stack' = <<>>
            /\ status' = "returned"
            /\ result' = Top.errors
       ELSE /\ stack' = [SubSeq(stack, 1, Len(stack) - 1) EXCEPT
                           ![Len(stack) - 1].errors = @ \o Top.errors]
            /\ UNCHANGED << status, result >>
    /\ UNCHANGED exceptDriver
    /\ UNCHANGED << validated, graph, ncalls, nparse, nannots, discovered,
                    late, failed, failure >>

\* The steps of the validate call in progress, with validator outputs of at
\* most n annotations in all.
Step(n) ==
    \/ GetResourceRaises
    \/ ParseExits
    \/ \E output \in Outputs(n - nannots) : UnexpectedAnnotation(output)
    \/ \E output \in Outputs(n - nannots) : Partition(output)
    \/ DrainCall
    \/ DrainSkip
    \/ DrainDone
    \/ \E value \in RefLists, nerr \in 0..1 : Handler(value, nerr)
    \/ EndKind
    \/ Return

\* One run of ApiDescription.load.
Next ==
    \/ \E ve \in BOOLEAN : Validate(ve)
    \/ Step(MaxAnnots)

Spec == Init /\ [][Next]_vars

\* An ApiDescription on which validate is called more than once.
NextAgain ==
    \/ \E ve \in BOOLEAN : Validate(ve)
    \/ \E u \in Uris, ve \in BOOLEAN : Revalidate(u, ve)
    \/ Step(MaxAnnotsAgain)

SpecAgain == Init /\ [][NextAgain]_vars

SpecCatalog == Init /\ [][NextCatalog]_vars

SpecTree == Init /\ [][NextTree]_vars

SpecSource == Init /\ [][NextSource]_vars

SpecManager == Init /\ [][NextManager]_vars

SpecFileArg == Init /\ [][NextFileArg]_vars

SpecLtu == Init /\ [][NextLtu]_vars

SpecParse == Init /\ [][NextParse]_vars

SpecRun == Init /\ [][NextRun]_vars

SpecReg == Init /\ [][NextReg]_vars

SpecHttp == Init /\ [][NextHttp]_vars

SpecNode == Init /\ [][NextNode]_vars


(***************************************************************************)
(* Properties of the validation driver.                                    *)
(***************************************************************************)
\* The order of the handler groups that the description of the driver fixes.
FixedOrder ==
    << "oasType", "oasReferences", "oasChildren", "oasLiterals",
       "oasExtensible", "oasApiLinks", "oasDescriptionLinks", "oasExamples" >>

\* The step is a handler call of kind kw made by the activation on top.
HandlerRuns(kw) ==
    /\ Running
    /\ Len(stack') = Len(stack)
    /\ Top.phase = "call"
    /\ Top'.by_method[kw] < Top.by_method[kw]

\* C1: within one pass the handlers run group by group in the fixed order:
\* a handler of some kind is called only when no annotation of an earlier
\* kind of that pass is still waiting for its handler; in particular
\* add_oasexamples is never called while an oasChildren annotation waits.
C1_FixedOrder ==
    [][ \A n \in 1..Len(FixedOrder) :
          HandlerRuns(FixedOrder[n]) =>
            \A m \in 1..(n - 1) : Top.by_method[FixedOrder[m]] = 0 ]_vars

\* A pass in which a handler of an earlier kind has run and the first
\* add_oasexamples call is about to be made.
C1_Witness ==
    /\ Running
    /\ Top.phase = "call"
    /\ ANNOT_ORDER[Top.i] = "oasExamples"
    /\ Top.by_method["oasExamples"] > 0
    /\ Top.k = 0
    /\ Top.uri \in graph

\* C2: when a pass is about to make its first add_oasexamples call, every
\* target its handlers have returned has been through a validate call that
\* has returned, unless it was in the validated set already because its own
\* validate call is still in progress further down the stack.
C2_TargetsBeforeExamples ==
    ( /\ Running
      /\ Top.phase = "call"
      /\ ANNOT_ORDER[Top.i] = "oasExamples"
      /\ Top.k = 0 )
    => \A t \in Range(Top.to_validate) : t \in completed \/ t \in OnStack

\* A pass about to make its first add_oasexamples call after the recursive
\* validation of a target it discovered.
C2_Witness ==
    /\ Running
    /\ Top.phase = "call"
    /\ ANNOT_ORDER[Top.i] = "oasExamples"
    /\ Top.by_method["oasExamples"] > 0
    /\ Top.k = 0
    /\ \E t \in Range(Top.to_validate) : t \in completed

\* a and b reference each other.
MutualReference(a, b) ==
    a # b /\ b \in discovered[a] /\ a \in discovered[b]

\* C3: no identifier has two validate calls in progress at once, so the
\* recursion is never deeper than the number of identifiers, and when the
\* top-level call has returned, two resources that reference each other are
\* in the validated set exactly once each.
C3_CycleSafe ==
    /\ \A m, n \in 1..Len(stack) : m # n => stack[m].uri # stack[n].uri
    /\ status = "returned" =>
         \A a, b \in Uris :
            MutualReference(a, b) =>
              Count(validated, a) = 1 /\ Count(validated, b) = 1

\* The top-level call has returned from a run in which the primary resource
\* and another one reference each other.
C3_Witness ==
    /\ status = "returned"
    /\ \E b \in Uris : MutualReference(PrimaryUri, b)

\* C4: a validate call for an identifier that is in the validated set returns
\* at once, without running the validator or a handler and without adding
\* to the validated set.
C4_Original ==
    [][ ( /\ Running
          /\ Top.phase = "enter"
          /\ Top.uri \in Range(validated) )
        => /\ nparse' = nparse
           /\ graph' = graph
           /\ validated' = validated ]_vars

\* The targets returned by the handlers that run before the loop over
\* to_validate.
Discovered == UNION { discovered[u] : u \in Uris }

\* C5 as stated: when the top-level call has returned, every target that a
\* handler returned during the run is in the validated set.
C5_Original ==
    status = "returned" => (Discovered \cup late) \subseteq Range(validated)

\* C5: when the top-level call has returned, every target that a handler of
\* a kind before oasExamples returned during the run is in the validated set.
C5_Closure ==
    status = "returned" => Discovered \subseteq Range(validated)

\* The top-level call has returned from a run that validated a resource
\* which the primary resource references only indirectly.
C5_Witness ==
    /\ status = "returned"
    /\ \E b, c \in Uris :
         /\ b # PrimaryUri /\ c # PrimaryUri /\ b # c
         /\ b \in discovered[PrimaryUri]
         /\ c \in discovered[b]
         /\ c \notin discovered[PrimaryUri]
         /\ c \in Range(validated)

\* The targets returned to passes of resources other than the failed one,
\* the failed one excepted, are validated.
OthersValidated ==
    \A u \in Uris \ {failed} :
       \A t \in discovered[u] \ {failed} : t \in Range(validated)

\* C6: a failure reported by the validator for one resource does not end
\* the run: the other resources that were discovered are still validated.
C6_Original ==
    failure = "instance" => (status # "exited" \/ OthersValidated)

\* C7: a failure to load one resource does not end the run: the other
\* resources that were discovered are still validated.
C7_Original ==
    failure = "load" => (status # "raised" \/ OthersValidated)

\* C8: when an annotation has no handler, validate fails with the validated
\* set and the graph as they were when it was called.
C8_UnexpectedKeyword ==
    [][ (failure' = "keyword" /\ failure # "keyword")
        => /\ status' = "raised"
           /\ validated' = validated
           /\ graph' = graph ]_vars

\* A recursive validate call has failed on an annotation without handler,
\* after the handlers of the calling pass had run.
C8_Witness ==
    /\ failure = "keyword"
    /\ status = "raised"
    /\ failed # PrimaryUri
    /\ PrimaryUri \in Range(validated)
    /\ PrimaryUri \in graph

(***************************************************************************)
(* Properties of the resource catalog.                                     *)
(***************************************************************************)
\* The loads of document d whose root node was cached under cacheid c.
LoadsInto(c, d) ==
    { n \in 1..Len(loads) : loads[n].doc = d /\ loads[n].cacheid = c }

\* C9: after any sequence of get_resource calls, every document has been
\* loaded at most once per cache partition, a call for a document that had a
\* cache entry has not called load_json, and the calls with one identifier
\* have all returned nodes of one and the same tree.
C9_Original ==
    /\ \A c \in CacheIds, d \in Docs : Cardinality(LoadsInto(c, d)) <= 1
    /\ call.loaded => call.cached = {}
    /\ \A r \in Requests : Cardinality(returned[r]) <= 1

\* C10: a get_resource call that names a partition, loads the document and
\* finds in it a version of another partition does not return a node: it
\* fails.
C10_Original ==
    ( /\ call.cacheid # "default"
      /\ call.loaded
      /\ call.detected \notin {"none", call.cacheid} )
    => call.outcome \in {"CatalogError", "ValueError"}

(***************************************************************************)
(* Properties of the typed document tree.                                  *)
(***************************************************************************)
\* C11 as stated: a convert_to_schema(key) call that is not the first one
\* for its key returns the schema node the first call returned, constructs
\* no node, leaves the slots of the parent as they are and resolves no
\* references.
C11_Original ==
    [][ \A k \in Keys :
          (nconv'[k] = nconv[k] + 1 /\ nconv[k] >= 1)
          => /\ conv'.outcome = "returned"
             /\ conv'.node.isschema
             /\ conv'.node = converted[k]
             /\ nnodes' = nnodes
             /\ data' = data
             /\ nresolved' = nresolved ]_vars

\* C26 as stated: a convert_to_schema(key) call on a child that is no
\* schema node puts in the slot at key a new schema node that wraps the same
\* value and has the identifier of the node it replaces, the identifier of
\* the parent with key appended to the pointer; every other slot keeps its
\* node.
C26_Original ==
    [][ \A k \in Keys :
          (nconv'[k] = nconv[k] + 1 /\ ~data[k].isschema)
          => /\ data'[k].isschema
             /\ data'[k].inst # data[k].inst
             /\ data'[k].value = data[k].value
             /\ data'[k].uri = data[k].uri
             /\ data'[k].uri = PointerAppend(ParentUri, k)
             /\ conv'.node = data'[k]
             /\ \A j \in Keys \ {k} : data'[j] = data[j] ]_vars

(***************************************************************************)
(* Properties of the multi-suffix source.                                  *)
(***************************************************************************)
\* The positions of the suffix list whose location holds a document that
\* the parser of the suffix parses.
LoadsAndParses ==
    { n \in 1..Len(res.suffixes) :
        Parse(res.suffixes[n], res.files) = "ok" }

\* C12: when some suffix of the list names a location that loads and parses,
\* the call returns the content of the first such location: the suffixes up
\* to that one were tried, in list order, none after it, and the locator
\* recorded for the requested path is the one with that suffix.
C12_Original ==
    \A n \in LoadsAndParses :
       (\A m \in LoadsAndParses : n <= m)
       => /\ res.result.outcome = "returned"
          /\ res.result.tried = SubSeq(res.suffixes, 1, n)
          /\ res.result.url = FullPath(res.relative_path, res.suffixes[n])
          /\ uri_url_map[res.relative_path] = res.result.url

\* No suffix of the list names a location that can be loaded: the location
\* is absent or the suffix has no parser.
NoneLoads ==
    \A n \in 1..Len(res.suffixes) :
       \/ res.suffixes[n] \notin ParserSuffixes
       \/ res.files[res.suffixes[n]] = "absent"

Declares(c, u) ==
    { n \in 1..Len(updates[c]) : updates[c][n][u] # NoLocation }

\* The entry for u of the merge in call order of the mappings declared for
\* catalog c: the one of the last call that has an entry for u.
Merged(c, u) ==
    IF Declares(c, u) = {} THEN NoLocation
    ELSE LET last == CHOOSE n \in Declares(c, u) :
                        \A m \in Declares(c, u) : m <= n
         IN  updates[c][last][u]

\* C14: a catalog for which update_direct_mapping has been called has
\* exactly one direct-map source registered, and the table of that source is
\* the merge of the mappings of the calls for the catalog, in call order.
C14_OneMergedSource ==
    \A c \in Catalogs :
       updates[c] # <<>>
       => /\ Len(uri_sources[c]) = 1
          /\ uri_sources[c][1] = direct_sources[c]
          /\ \A u \in MapUris :
               source_map[direct_sources[c]][u] = Merged(c, u)

\* Three calls for one catalog: the second overrides an entry of the first
\* and the third has no entry for that identifier; the first one's entry
\* for the other identifier is kept.
C14_Witness ==
    /\ Len(updates["oascomply"]) = 3
    /\ updates["oascomply"][1] = [u \in MapUris |-> "l1"]
    /\ updates["oascomply"][2]["u1"] = "l2"
    /\ updates["oascomply"][2]["u2"] = NoLocation
    /\ updates["oascomply"][3] = EmptyMapping
    /\ source_map[direct_sources["oascomply"]]["u1"] = "l2"
    /\ source_map[direct_sources["oascomply"]]["u2"] = "l1"

(***************************************************************************)
(* Properties of the URI assignment.                                       *)
(***************************************************************************)
\* The declared directories the file of the last call lies under.
Matching ==
    { d \in Range(farg.declared) : IsRelativeTo(farg.file, d) }

\* C15: when the file lies under declared directories, its URI is built from
\* the prefix of the longest of them.
C15_Original ==
    \A d \in Matching :
       (\A e \in Matching : Len(e) <= Len(d))
       => farg.uri = AssignedUri("prefix", d)


(***************************************************************************)
(* C16 as stated: a construction marked as a prefix fails with the message *)
(* "path ending in '/'" whenever the path of the identifier does not end   *)
(* in '/', and with the message "query or fragment" whenever the           *)
(* identifier carries a query or a fragment.                               *)
(***************************************************************************)
C16_Original ==
    (ltu.cls # "none" /\ ltu.uri_is_prefix) =>
        LET id == UriObj(ltu.cls, ltu.location, ltu.primary_uri,
                         ltu.to_strip)
        IN  /\ ~PathEndsWithSlash(id) =>
                /\ ltu.outcome = "ValueError"
                /\ ltu.error \in {ErrUriPath, ErrUrlPath}
            /\ (id.query # "none" \/ id.fragment # "none") =>
                /\ ltu.outcome = "ValueError"
                /\ ltu.error = ErrQueryFragment

(***************************************************************************)
(* C16: a construction marked as a prefix fails whenever the path of the   *)
(* identifier does not end in '/' and whenever the identifier has a        *)
(* non-empty query or fragment.  When the location is accepted and no      *)
(* additional URIs are given, the message is "path ending in '/'" in the   *)
(* first case, and "query or fragment" in the second case when moreover    *)
(* the path ends in '/' and the identifier is absolute.                    *)
(***************************************************************************)
C16_PrefixChecks ==
    (ltu.cls # "none" /\ ltu.uri_is_prefix) =>
        LET id == UriObj(ltu.cls, ltu.location, ltu.primary_uri,
                         ltu.to_strip)
            first == /\ SetLocation(ltu.cls, ltu.location, TRUE) = "ok"
                     /\ ltu.additional_uris = << >>
        IN  /\ ~PathEndsWithSlash(id) =>
                /\ ltu.outcome = "ValueError"
                /\ first => ltu.error = ErrUriPath
            /\ (NonEmpty(id.query) \/ NonEmpty(id.fragment)) =>
                /\ ltu.outcome = "ValueError"
                /\ (first /\ PathEndsWithSlash(id) /\ id.scheme # "none")
                      => ltu.error = ErrQueryFragment

\* A prefix with a path ending in '/' and a query is refused for its query,
\* and one without the '/' for its path.
C16_Witness ==
    /\ ltu.uri_is_prefix
    /\ ltu.additional_uris = << >>
    /\ ltu.outcome = "ValueError"
    /\ ltu.error \in {ErrQueryFragment, ErrUriPath}
    /\ ltu.auto_uri
    /\ ltu.cls = "URLToURI"


\* Some suffix of the list comes after another one at the end of the string.
TwoSuffixes(s, to_strip) ==
    \E x, y \in DOMAIN to_strip :
        /\ to_strip[x] # << >>
        /\ to_strip[y] # << >>
        /\ EndsWith(s, to_strip[x] \o to_strip[y])

(***************************************************************************)
(* C17 as stated: for every location string and every suffix list,         *)
(* _strip_suffixes applied to an already stripped location returns it      *)
(* unchanged.                                                              *)
(***************************************************************************)
C17_Original ==
    ltu.cls # "none" =>
        LET s == LocationString(ltu.cls, ltu.location)
        IN  /\ StripSuffixes(StripSuffixes(s, ltu.to_strip), ltu.to_strip)
                 = StripSuffixes(s, ltu.to_strip)
            /\ ThingStripSuffixes(ThingStripSuffixes(s, ltu.to_strip),
                                  ltu.to_strip)
                 = ThingStripSuffixes(s, ltu.to_strip)

(***************************************************************************)
(* C17: _strip_suffixes removes at most one suffix, so a second            *)
(* application returns the stripped location unchanged when the location   *)
(* does not end with two suffixes of the list in a row; for                *)
(* ThingToURI._strip_suffixes the list must moreover not contain ''.       *)
(***************************************************************************)
C17_IdempotentOnOneSuffix ==
    ltu.cls # "none" =>
        LET s == LocationString(ltu.cls, ltu.location)
        IN  ~TwoSuffixes(s, ltu.to_strip) =>
              /\ StripSuffixes(StripSuffixes(s, ltu.to_strip), ltu.to_strip)
                   = StripSuffixes(s, ltu.to_strip)
              /\ (\A x \in DOMAIN ltu.to_strip : ltu.to_strip[x] # << >>) =>
                   ThingStripSuffixes(ThingStripSuffixes(s, ltu.to_strip),
                                      ltu.to_strip)
                     = ThingStripSuffixes(s, ltu.to_strip)

\* A location with one suffix that the second entry of the list strips.
C17_Witness ==
    /\ ltu.cls = "LocationToURI"
    /\ Len(ltu.to_strip) = 2
    /\ ~TwoSuffixes(ltu.location, ltu.to_strip)
    /\ StripSuffixes(ltu.location, ltu.to_strip) # ltu.location
    /\ ~EndsWith(ltu.location, ltu.to_strip[1])
    /\ ltu.outcome = "ok"
    /\ ltu.auto_uri


\* The positions of the list whose suffix the string ends with.
MatchingSuffixes(s, to_strip) ==
    { n \in DOMAIN to_strip : EndsWith(s, to_strip[n]) }

\* The string without the first suffix of the list that it ends with.
FirstSuffixRemoved(s, to_strip) ==
    IF MatchingSuffixes(s, to_strip) = {} THEN s
    ELSE LET first == CHOOSE n \in MatchingSuffixes(s, to_strip) :
                        \A m \in MatchingSuffixes(s, to_strip) : n <= m
         IN  SubSeq(s, 1, Len(s) - Len(to_strip[first]))

(***************************************************************************)
(* C18: in a constructed LocationToURI, auto_uri is true exactly when no   *)
(* explicit identifier was given; the identifier is then the location      *)
(* without the first suffix of the strip list that it ends with (nothing   *)
(* is removed when no suffix matches or the list is empty, and never more  *)
(* than one suffix); an explicit identifier is used verbatim whatever the  *)
(* strip list.                                                             *)
(***************************************************************************)
C18_DerivedOrVerbatim ==
    ltu.outcome = "ok" =>
        /\ ltu.auto_uri <=> (ltu.primary_uri = NoString)
        /\ ltu.primary_uri = NoString =>
             /\ Unsplit(ltu.uri) = FirstSuffixRemoved(ltu.location,
                                                       ltu.to_strip)
             /\ ltu.to_strip = << >> => Unsplit(ltu.uri) = ltu.location
             /\ Len(ltu.location) - Len(Unsplit(ltu.uri)) <= 1
        /\ ltu.primary_uri # NoString =>
             Unsplit(ltu.uri) = ltu.primary_uri

\* A URL with two suffixes of which the second entry of the list removes
\* the last one.
C18_Witness ==
    /\ ltu.outcome = "ok"
    /\ ltu.cls = "URLToURI"
    /\ ltu.auto_uri
    /\ Len(ltu.to_strip) = 2
    /\ MatchingSuffixes(ltu.location, ltu.to_strip) = {2}
    /\ TwoSuffixes(ltu.location, ltu.to_strip)
    /\ Len(Unsplit(ltu.uri)) = Len(ltu.location) - 1


(***************************************************************************)
(* C19: constructing a LocationToURI with the prefix flag set and a        *)
(* non-empty list of additional identifiers always fails, with the error   *)
(* 'Cannot associate additional URIs with a URI prefix'; for the subclass  *)
(* URLToURI that is the error when the URL itself is accepted.             *)
(***************************************************************************)
C19_AdditionalWithPrefixFails ==
    (ltu.cls # "none" /\ ltu.uri_is_prefix /\ ltu.additional_uris # << >>)
        => /\ ltu.outcome = "ValueError"
           /\ ltu.cls = "LocationToURI" => ltu.error = ErrAdditional
           /\ ltu.error \in {ErrAdditional, ErrRelative, ErrUrlPath}
           /\ (/\ ParseURI(ltu.location).scheme # "none"
               /\ PathEndsWithSlash(ParseURI(ltu.location)))
                 => ltu.error = ErrAdditional

\* A prefix whose identifier would pass every other check, refused for its
\* additional identifiers.
C19_Witness ==
    /\ ltu.cls = "LocationToURI"
    /\ ltu.uri_is_prefix
    /\ ltu.additional_uris # << >>
    /\ ltu.error = ErrAdditional
    /\ ltu.location = << "https://ex.org", "/" >>
    /\ ltu.primary_uri = NoString


\* The identifier of the call, explicit or derived, has no scheme.
RelativeIdentifier ==
    UriObj(ltu.cls, ltu.location, ltu.primary_uri, ltu.to_strip).scheme
      = "none"

\* The call is URLToURI(location, ...) with a location without scheme.
RelativeUrl ==
    ltu.cls = "URLToURI" /\ ParseURI(ltu.location).scheme = "none"

(***************************************************************************)
(* C20 as stated: every constructed LocationToURI has an identifier with a *)
(* scheme; a relative explicit or derived identifier, and for URLToURI a   *)
(* relative location, makes the construction fail with the error 'cannot   *)
(* be relative'.                                                           *)
(***************************************************************************)
C20_Original ==
    ltu.cls # "none" =>
        /\ ltu.outcome = "ok" => ltu.uri.scheme # "none"
        /\ (RelativeIdentifier \/ RelativeUrl) =>
             /\ ltu.outcome = "ValueError"
             /\ ltu.error = ErrRelative

(***************************************************************************)
(* C20: every constructed LocationToURI has an identifier with a scheme.   *)
(* A relative explicit or derived identifier, and for URLToURI a relative  *)
(* location, makes the construction fail.  The error is 'cannot be         *)
(* relative' for a relative URL, and for a relative identifier when the    *)
(* object is not a prefix, or is a prefix without additional URIs whose    *)
(* identifier has a path ending in '/'.                                    *)
(***************************************************************************)
C20_AbsoluteIdentifier ==
    ltu.cls # "none" =>
        /\ ltu.outcome = "ok" => ltu.uri.scheme # "none"
        /\ (RelativeIdentifier \/ RelativeUrl) => ltu.outcome = "ValueError"
        /\ RelativeUrl => ltu.error = ErrRelative
        /\ (/\ RelativeIdentifier
            /\ ~RelativeUrl
            /\ \/ ~ltu.uri_is_prefix
               \/ /\ ltu.additional_uris = << >>
                  /\ ltu.cls = "URLToURI" =>
                        PathEndsWithSlash(ParseURI(ltu.location))
                  /\ PathEndsWithSlash(
                         UriObj(ltu.cls, ltu.location, ltu.primary_uri,
                                ltu.to_strip)))
             => ltu.error = ErrRelative

\* An absolute URL given a relative explicit identifier.
C20_Witness ==
    /\ ltu.cls = "URLToURI"
    /\ ltu.primary_uri = << "a" >>
    /\ ParseURI(ltu.location).scheme # "none"
    /\ ~ltu.uri_is_prefix
    /\ ltu.outcome = "ValueError"
    /\ ltu.error = ErrRelative


(***************************************************************************)
(* C21 as stated: for content of unknown type the parser runs JSON first   *)
(* and YAML only if JSON fails; it fails only if both fail, and the error  *)
(* it then raises is a composite one that lists both underlying failures.  *)
(***************************************************************************)
C21_Original ==
    \A n \in DOMAIN parses :
        parses[n].content_info = "" =>
            LET p == parses[n]
                both == /\ JsonParse(p.content) # "ok"
                        /\ YamlParse(p.content) # "ok"
            IN  /\ p.ran[1] = "json"
                /\ (Len(p.ran) = 2) <=> (JsonParse(p.content) # "ok")
                /\ (p.outcome # "ok") <=> both
                /\ both => /\ p.outcome = "CatalogError"
                           /\ p.lists = << JsonError(p.content),
                                           YamlError(p.content) >>


\* The call was made in the run.
Called(name) == \E n \in DOMAIN run.calls : run.calls[n] = name

(***************************************************************************)
(* C22: when there is no entry resource, or the entry resource has no      *)
(* 'openapi' field, the configuration error is the outcome of the run: no  *)
(* ApiDescription is built, validate and validate_graph are never called,  *)
(* and the run is reported as failed with the configuration error alone.   *)
(***************************************************************************)
C22_ConfigurationFirst ==
    (run.load # "none" /\ run.entry \in {"none", "no openapi"}) =>
        /\ ~run.desc
        /\ run.calls = << >>
        /\ run.pc \in {"returned", "done"} =>
             run.errors = << ErrConfiguration >>
        /\ run.pc = "done" => run.status = "failed"

\* A run of cli.load on a document without 'openapi' field, at its end.
C22_Witness ==
    /\ run.load = "cli.load"
    /\ run.entry = "no openapi"
    /\ run.pc = "done"
    /\ run.status = "failed"


\* The position of the first call of that name in the run.
CallIndex(name) == CHOOSE n \in DOMAIN run.calls : run.calls[n] = name

C24_ExamplesSkipped ==
    \A n \in DOMAIN stack :
        /\ stack[n].validate_examples = stack[1].validate_examples
        /\ ~stack[n].validate_examples =>
             /\ ~(/\ stack[n].phase = "call"
                  /\ ANNOT_ORDER[stack[n].i] = "oasExamples")
             /\ late = {}
             /\ stack[n].phase = "return" =>
                  Range(stack[n].to_validate) \subseteq Range(validated)

\* A recursive call without example validation returns: its resource has
\* oasExamples annotations, and a reference target that was validated.
C24_Witness ==
    /\ Len(stack) = 2
    /\ ~stack[2].validate_examples
    /\ stack[2].phase = "return"
    /\ stack[2].by_method["oasExamples"] > 0
    /\ stack[2].to_validate # << >>


(***************************************************************************)
(* C25: an activation of validate is not in the validated set while it     *)
(* loads, parses and partitions the annotations, and it is in the set from *)
(* then on, in particular before its first recursive call: during a        *)
(* recursive call every calling resource is in the validated set.          *)
(***************************************************************************)
C25_ValidatedBeforeRecursion ==
    \A n \in DOMAIN stack :
        /\ stack[n].phase = "enter" => stack[n].uri \notin Range(validated)
        /\ stack[n].phase # "enter" => stack[n].uri \in Range(validated)
        /\ n < Len(stack) =>
             /\ stack[n].phase = "drain"
             /\ Count(validated, stack[n].uri) = 1

\* A recursive call has found a reference back to the resource that called
\* it, and is about to go through its own targets.
C25_Witness ==
    /\ Len(stack) = 2
    /\ stack[2].phase = "drain"
    /\ stack[1].uri \in Range(stack[2].to_validate)
    /\ stack[2].j = 1

(***************************************************************************)
(* Properties of the url and sourcemap tables.                             *)
(***************************************************************************)
\* C27: after every successful resolution, the tables shared by the sources
\* of the catalog hold the actual locator and the sourcemap of the content
\* under the requested absolute identifier (the URI prefix of the source
\* followed by the relative path), and the catalog reads these two back
\* under that key right after the load.
C27_Original ==
    resolution.outcome = "returned"
    => LET source == registered[resolution.source]
           base_uri == source.uri_prefix \o resolution.relative_path
           url == ContentUrl(resolution.source, resolution.relative_path)
           sourcemap ==
               ContentSourcemap(resolution.source, resolution.relative_path)
       IN  /\ Lookup(url_maps[source.catalog], base_uri) = url
           /\ Lookup(sourcemap_maps[source.catalog], base_uri) = sourcemap
           /\ resolution.url = url
           /\ resolution.sourcemap = sourcemap

(***************************************************************************)
(* C30: the query/fragment restriction applies to prefixes only.  A call   *)
(* that is not marked as a prefix, whose location is accepted and whose    *)
(* identifier (explicit or derived) is absolute and carries a fragment,    *)
(* succeeds, and the uri of the object keeps that fragment.                *)
(***************************************************************************)
C30_Original ==
    LET uri_obj == UriObj(ltu.cls, ltu.location, ltu.primary_uri,
                          ltu.to_strip)
    IN  (/\ ltu.cls # "none"
         /\ ~ltu.uri_is_prefix
         /\ SetLocation(ltu.cls, ltu.location, ltu.uri_is_prefix) = "ok"
         /\ uri_obj.scheme # "none"
         /\ uri_obj.fragment # "none")
        => /\ ltu.outcome = "ok"
           /\ ltu.uri.fragment = uri_obj.fragment

(***************************************************************************)
(* Properties of the HTTP loader.                                          *)
(***************************************************************************)
\* The Content-Type names JSON, or YAML: by its subtype or by its
\* structured suffix.
NamesJson(ctype) ==
    /\ ctype # NoHeader
    /\ \/ ParseContentType(ctype).subtype = "json"
       \/ ParseContentType(ctype).suffix = "json"

NamesYaml(ctype) ==
    /\ ctype # NoHeader
    /\ ~NamesJson(ctype)
    /\ \/ ParseContentType(ctype).subtype \in {"yaml", "x-yaml"}
       \/ ParseContentType(ctype).suffix \in {"yaml", "x-yaml"}

\* C29: every load whose request succeeds returns, with the parse type of
\* the Content-Type when it names JSON or YAML, and otherwise with the one
\* of the URL path suffix (.json gives JSON, .yaml and .yml give YAML,
\* anything else gives unknown); a response without Content-Type header is
\* among the latter.
C29_Original ==
    \A n \in DOMAIN http :
       http[n].response = "ok"
       => /\ http[n].outcome = "returned"
          /\ http[n].parse_type =
                IF NamesJson(http[n].ctype) THEN ".json"
                ELSE IF NamesYaml(http[n].ctype) THEN ".yaml"
                ELSE SuffixParseType(http[n].url)

(***************************************************************************)
(* Properties of the nodes of a typed document tree.                       *)
(***************************************************************************)
\* The root of the document that node number n lies in, by parent links.
RECURSIVE RootOf(_)
RootOf(n) == IF nodes[n].parent = 0 THEN n ELSE RootOf(nodes[n].parent)

\* The string s with "/" and the escaped form of key at its end.
WithKey(s, key) == s \o << "/" >> \o Escape(key)

\* C28: for every node with a parent, the identifier is the one of the
\* parent with the escaped traversal key appended to the pointer fragment,
\* the locator is the one of the parent extended in the same way, and the
\* document root, OAS version, sourcemap and metaschema are those of the
\* root of the document.
C28_ChildFields ==
    \A n \in DOMAIN nodes :
       nodes[n].parent # 0
       => LET parent == nodes[nodes[n].parent]
              root == nodes[RootOf(n)]
          IN  /\ nodes[n].uri.base = parent.uri.base
              /\ nodes[n].uri.fragment
                    = WithKey(parent.uri.fragment, nodes[n].key)
              /\ nodes[n].url.base = parent.url.base
              /\ nodes[n].url.fragment
                    = WithKey(parent.url.fragment, nodes[n].key)
              /\ nodes[n].document_root = RootOf(n)
              /\ nodes[n].oasversion = root.oasversion
              /\ nodes[n].sourcemap = root.sourcemap
              /\ nodes[n].metaschema = root.metaschema

\* A child of a child, under a key with a "/", in a document whose root has
\* a sourcemap and was given identifier and locator without fragment, next
\* to no other root.
C28_Witness ==
    /\ Len(nodes) = 3
    /\ nodes[1].sourcemap # NoneValue
    /\ nodes[2].parent = 1
    /\ nodes[3].parent = 2
    /\ nodes[3].key = << "a", "/", "b" >>
    /\ nodes[3].uri.fragment = << "/", "~0", "a", "/", "a", "~1", "b" >>

====
